---- MODULE Spec2Model ----
(***************************************************************************)
(* A model of the fhirlighter path-expression pipeline: the lexer          *)
(* (lexer/tokenizer.rs), the arena and parser (parser/grammar.rs,          *)
(* parser/ast.rs), the tree-walking evaluator (evaluator/engine.rs,        *)
(* evaluator/utils.rs, evaluator/functions/array_functions.rs) and the     *)
(* library entry points (lib.rs).                                          *)
(***************************************************************************)
EXTENDS Integers, Sequences, FiniteSets, TLC

VARIABLES
    pc,        \* position of the caller: "ready" before the call, "done" after it;
               \* "lib" for a caller of the text entry points
    text,      \* the expression text handed to the library (a sequence of characters)
    ast,       \* the Ast handed to Evaluator::evaluate: [expressions, start]
    doc,       \* the caller's document (serde_json::Value)
    evalres,   \* what the recursive Evaluator::eval returned for the root
    result,    \* what the top-level call returned
    parsed,    \* what parse(text) returned
    astresult, \* what evaluate_ast returned for the parsed Ast
    calls,     \* how many times evaluate_ast was called on the parsed Ast
    arena,     \* an ExprPool that a caller fills with add, held as the number
               \* of its leading filler nodes and the nodes after them
    issued,    \* the handles that add has returned to that caller, in order
    lastop     \* the caller's last call on the pool, with what it returned

poolvars == <<arena, issued, lastop>>
vars == <<pc, text, ast, doc, evalres, result, parsed, astresult, calls, poolvars>>

(***************************************************************************)
(* Bounds of the model.                                                    *)
(***************************************************************************)
MaxLen == 2      \* longest collection inside a document
MaxIndex == 2    \* largest integer literal used as an index
MaxChunks == 3   \* most lexical chunks concatenated into an expression text
MaxCalls == 2    \* most calls of evaluate_ast on one parsed Ast
MaxOps == 3      \* most calls a caller makes on one ExprPool

(***************************************************************************)
(* serde_json::Value, as a tagged record; each variant names its payload  *)
(* field differently, so a field always holds values of one type.         *)
(***************************************************************************)
JNull == [t |-> "null"]
JBool(b) == [t |-> "bool", b |-> b]
JNum(n) == [t |-> "num", n |-> n]
JFloat(n) == [t |-> "float", f |-> n]
JStr(s) == [t |-> "str", s |-> s]
JArr(s) == [t |-> "arr", a |-> s]
JObj(f) == [t |-> "obj", o |-> f]

EmptyObj == JObj(<<>>)
EmptyArr == JArr(<<>>)

\* Value::get(&str): Some only on an object that has the key.
HasKey(value, key) == value.t = "obj" /\ key \in DOMAIN value.o
GetKey(value, key) == value.o[key]

\* Option<T>
None == <<>>
Some(x) == <<x>>
IsSome(o) == o # <<>>
Unwrap(o) == o[1]

(***************************************************************************)
(* evaluator/error.rs: the three error kinds.                              *)
(***************************************************************************)
ErrorKinds == {"Parse", "Unrecoverable", "IntegerConversion"}
Err(kind, msg) == [ok |-> FALSE, kind |-> kind, msg |-> msg]

\* Ok(Cow::Borrowed(v)) and Ok(Cow::Owned(v)) of the recursive evaluation
Borrowed(v) == [ok |-> TRUE, cow |-> "Borrowed", v |-> v]
Owned(v) == [ok |-> TRUE, cow |-> "Owned", v |-> v]
\* Ok(value) of the top-level calls
OkValue(v) == [ok |-> TRUE, v |-> v]

(***************************************************************************)
(* parser/grammar.rs: Expression, ExprRef, ExprPool.                       *)
(***************************************************************************)
Identifier(name) == [kind |-> "Identifier", name |-> name]
MemberAccess(object, member) ==
    [kind |-> "MemberAccess", object |-> object, member |-> member]
Index(object, index) == [kind |-> "Index", object |-> object, index |-> index]
FunctionCall(object, function, arguments) ==
    [kind |-> "FunctionCall", object |-> object, function |-> function,
     arguments |-> arguments]
BinaryOperation(operator, lhs, rhs) ==
    [kind |-> "BinaryOperation", operator |-> operator, lhs |-> lhs, rhs |-> rhs]
StringLit(s) == [kind |-> "String", literal |-> s]
IntegerLit(i) == [kind |-> "Integer", integer |-> i]
NumberLit(n) == [kind |-> "Number", number |-> n]
BooleanLit(b) == [kind |-> "Boolean", boolean |-> b]

BinaryOperators ==
    {"Equals", "NotEquals", "LessThan", "LessThanOrEqual", "GreaterThan",
     "GreaterThanOrEqual"}

\* ExprRef(u16): the largest handle
U16Max == 65535

\* ExprPool::new
NewPool == <<>>

\* add with a truncating index conversion (index as u16)
add_wrapping(pool, expr) ==
    LET pushed == Append(pool, expr)
        index == Len(pushed) - 1
    IN  [ok |-> TRUE, pool |-> pushed, ref |-> index % (U16Max + 1)]

\* ExprPool::add: push, then convert the index to u16
add(pool, expr) ==
    LET pushed == Append(pool, expr)
        index == Len(pushed) - 1
    IN  IF index > U16Max
        THEN [ok |-> FALSE, pool |-> pushed,
              err |-> Err("Parse", "Number of expressions exceeded pool size")]
        ELSE [ok |-> TRUE, pool |-> pushed, ref |-> index]

\* ExprPool::get
get(pool, expr_ref) == pool[expr_ref + 1]

\* set_function_object rebuilding the node without its arguments
set_function_object_bare(pool, expr_ref, object) ==
    LET expression == pool[expr_ref + 1]
    IN  [pool |-> IF expression.kind = "FunctionCall"
                  THEN [pool EXCEPT ![expr_ref + 1] =
                            FunctionCall(Some(object), expression.function, <<>>)]
                  ELSE pool,
         ref |-> expr_ref]

\* ExprPool::set_function_object
set_function_object(pool, expr_ref, object) ==
    LET expression == pool[expr_ref + 1]
    IN  [pool |-> IF expression.kind = "FunctionCall"
                  THEN [pool EXCEPT ![expr_ref + 1] =
                            FunctionCall(Some(object), expression.function,
                                         expression.arguments)]
                  ELSE pool,
         ref |-> expr_ref]

(***************************************************************************)
(* evaluator/utils.rs: element extraction, borrowing when possible and     *)
(* moving out of an owned value otherwise.                                 *)
(***************************************************************************)
\* serde_json::Map::remove on an owned map: the removed value and the rest
MapRemove(map, key) ==
    [value |-> map[key], rest |-> [k \in (DOMAIN map) \ {key} |-> map[k]]]

\* a swap_remove that hands back the element swapped in instead of the one removed
SwapRemoveSwapped(arr, index) ==
    LET n == Len(arr)
    IN  [value |-> arr[n],
         rest |-> [k \in 1..(n - 1) |-> IF k = index + 1 THEN arr[n] ELSE arr[k]]]

\* Vec::swap_remove(index) (index is 0-based): the element at index is
\* returned, the last element takes its place
SwapRemove(arr, index) ==
    LET n == Len(arr)
    IN  [value |-> arr[index + 1],
         rest |-> [k \in 1..(n - 1) |-> IF k = index + 1 THEN arr[n] ELSE arr[k]]]

\* a pop that takes the first element (Vec::remove(0))
PopFront(arr) == [value |-> arr[1], rest |-> Tail(arr)]

\* Vec::pop on a non-empty vector
Pop(arr) == [value |-> arr[Len(arr)], rest |-> SubSeq(arr, 1, Len(arr) - 1)]

get_from_object(cow_obj, key) ==
    IF cow_obj.v.t = "obj"
    THEN IF cow_obj.cow = "Borrowed"
         THEN IF key \in DOMAIN cow_obj.v.o
              THEN Borrowed(cow_obj.v.o[key])
              ELSE Err("Parse", "Couldn't retrieve member")
         ELSE IF key \in DOMAIN cow_obj.v.o
              THEN Owned(MapRemove(cow_obj.v.o, key).value)
              ELSE Err("Parse", "Couldn't retrieve member")
    ELSE Err("Parse", "Expected an object")

get_from_array(cow_arr, index) ==
    IF cow_arr.v.t = "arr"
    THEN IF cow_arr.cow = "Borrowed"
         THEN IF index < Len(cow_arr.v.a)
              THEN Borrowed(cow_arr.v.a[index + 1])
              ELSE Err("Parse", "Couldn't retrieve index")
         ELSE IF index < Len(cow_arr.v.a)
              THEN Owned(SwapRemove(cow_arr.v.a, index).value)
              ELSE Err("Parse", "Couldn't retrieve index")
    ELSE Err("Parse", "Expected an array")

(***************************************************************************)
(* evaluator/functions/array_functions.rs                                  *)
(***************************************************************************)
empty(cow_arr) ==
    IF cow_arr.v.t = "arr"
    THEN Owned(JBool(Len(cow_arr.v.a) = 0))
    ELSE Err("Parse", "Expected an array")

\* a last that takes the element at the front
last_front(cow_arr) ==
    IF cow_arr.v.t = "arr"
    THEN IF Len(cow_arr.v.a) > 0
         THEN IF cow_arr.cow = "Borrowed"
              THEN Borrowed(cow_arr.v.a[1])
              ELSE Owned(cow_arr.v.a[1])
         ELSE Err("Parse", "Couldn't last item from array")
    ELSE Err("Parse", "Expected an array")

last(cow_arr) ==
    IF cow_arr.v.t = "arr"
    THEN IF cow_arr.cow = "Borrowed"
         THEN IF Len(cow_arr.v.a) > 0
              THEN Borrowed(cow_arr.v.a[Len(cow_arr.v.a)])
              ELSE Err("Parse", "Couldn't last item from array")
         ELSE IF Len(cow_arr.v.a) > 0
              THEN Owned(Pop(cow_arr.v.a).value)
              ELSE Err("Parse", "Couldn't last item from array")
    ELSE Err("Parse", "Expected an array")

\* a count that treats the empty collection as first and last do
count_nonempty(cow_arr) ==
    IF cow_arr.v.t = "arr"
    THEN IF Len(cow_arr.v.a) > 0
         THEN Owned(JNum(Len(cow_arr.v.a)))
         ELSE Err("Parse", "Couldn't count items of array")
    ELSE Err("Parse", "Expected an array")

count(cow_arr) ==
    IF cow_arr.v.t = "arr"
    THEN Owned(JNum(Len(cow_arr.v.a)))
    ELSE Err("Parse", "Expected an array")

exists(cow_arr) ==
    IF cow_arr.v.t = "arr"
    THEN Owned(JBool(Len(cow_arr.v.a) # 0))
    ELSE Err("Parse", "Expected an array")

(***************************************************************************)
(* What an extraction leaves of the value behind its argument: a borrowed  *)
(* value is a view of the caller's document and is only read (get, last);  *)
(* an owned value is the evaluator's own and loses the extracted element   *)
(* (remove, swap_remove, pop) before it is dropped.                        *)
(***************************************************************************)
get_from_object_leaves(cow_obj, key) ==
    IF cow_obj.v.t = "obj" /\ cow_obj.cow = "Owned" /\ key \in DOMAIN cow_obj.v.o
    THEN JObj(MapRemove(cow_obj.v.o, key).rest)
    ELSE cow_obj.v

\* a get_from_array that moves the element out whatever the variant
get_from_array_leaves_moving(cow_arr, index) ==
    IF cow_arr.v.t = "arr" /\ index < Len(cow_arr.v.a)
    THEN JArr(SwapRemove(cow_arr.v.a, index).rest)
    ELSE cow_arr.v

get_from_array_leaves(cow_arr, index) ==
    IF cow_arr.v.t = "arr" /\ cow_arr.cow = "Owned" /\ index < Len(cow_arr.v.a)
    THEN JArr(SwapRemove(cow_arr.v.a, index).rest)
    ELSE cow_arr.v

last_leaves(cow_arr) ==
    IF cow_arr.v.t = "arr" /\ cow_arr.cow = "Owned" /\ Len(cow_arr.v.a) > 0
    THEN JArr(Pop(cow_arr.v.a).rest)
    ELSE cow_arr.v

(***************************************************************************)
(* evaluator/evaluation_utils.rs: eval_index.  usize::try_from(i64) fails  *)
(* exactly on the negative values (64-bit usize).                          *)
(***************************************************************************)
\* an eval_index that counts positions from one
eval_index_one_based(index, resource) ==
    IF index.kind = "Integer"
    THEN IF index.integer < 0
         THEN Err("IntegerConversion", "Couldn't convert integer")
         ELSE [ok |-> TRUE, index |-> index.integer + 1]
    ELSE Err("Unrecoverable", "Couldn't evaluate index")

\* an eval_index that reports an index of another kind as a lookup failure
eval_index_lookup(index, resource) ==
    IF index.kind = "Integer"
    THEN IF index.integer < 0
         THEN Err("IntegerConversion", "Couldn't convert integer")
         ELSE [ok |-> TRUE, index |-> index.integer]
    ELSE Err("Parse", "Couldn't evaluate index")

\* an eval_index that takes the magnitude of a negative integer
eval_index_magnitude(index, resource) ==
    IF index.kind = "Integer"
    THEN [ok |-> TRUE,
          index |-> IF index.integer < 0 THEN 0 - index.integer ELSE index.integer]
    ELSE Err("Unrecoverable", "Couldn't evaluate index")

eval_index(index, resource) ==
    IF index.kind = "Integer"
    THEN IF index.integer < 0
         THEN Err("IntegerConversion", "Couldn't convert integer")
         ELSE [ok |-> TRUE, index |-> index.integer]
    ELSE Err("Unrecoverable", "Couldn't evaluate index")

(***************************************************************************)
(* evaluator/utils.rs: ComparableTypes.  Strings are atoms of the model,   *)
(* so the two library parsers and the byte order of strings are tables     *)
(* over the strings the model uses.                                        *)
(***************************************************************************)
\* time::Date::parse(s, Iso8601::DATE): <<year, month, day>> of the strings
\* that are ISO-8601 dates, in the calendar form year-month-day or in the
\* ordinal form year-day of year (day 360 of 2020 is 25 December)
DateTable ==
    [s \in {"2020-12-31", "2020-360", "2021-01-01"} |->
        CASE s = "2020-12-31" -> <<2020, 12, 31>>
          [] s = "2020-360" -> <<2020, 12, 25>>
          [] s = "2021-01-01" -> <<2021, 1, 1>>]
\* time::PrimitiveDateTime::parse(s, Iso8601::DEFAULT)
DateTimeTable ==
    [s \in {"2021-01-01T10:00:00"} |-> <<2021, 1, 1, 10, 0, 0>>]

\* the strings of the model in byte order (str's Ord)
StringOrder ==
    <<"", "2020-12-31", "2020-360", "2021-01-01", "2021-01-01T10:00:00", "James", "Jim",
      "Patient", "Peter", "a", "b">>
StringRank(s) == CHOOSE i \in 1..Len(StringOrder) : StringOrder[i] = s

\* the order of the enum's variants (derive(PartialOrd))
Discriminant(tag) ==
    CASE tag = "String" -> 0
      [] tag = "Integer" -> 1
      [] tag = "Boolean" -> 2
      [] tag = "ISODateTime" -> 3
      [] tag = "ISODate" -> 4

Comparable(tag, v) == [ok |-> TRUE, tag |-> tag, v |-> v]

\* a from_value that takes every string as a plain string
from_value_lexical(value) ==
    CASE value.t = "str" -> Comparable("String", value.s)
      [] value.t = "num" -> Comparable("Integer", value.n)
      [] value.t = "float" -> Err("Parse", "Number cannot be represented as i64")
      [] value.t = "bool" -> Comparable("Boolean", value.b)
      [] OTHER -> Err("Parse", "Not implemented comparison for type.")

\* ComparableTypes::from_value
from_value(value) ==
    CASE value.t = "str" ->
            IF value.s \in DOMAIN DateTable
            THEN Comparable("ISODate", DateTable[value.s])
            ELSE IF value.s \in DOMAIN DateTimeTable
                 THEN Comparable("ISODateTime", DateTimeTable[value.s])
                 ELSE Comparable("String", value.s)
      [] value.t = "num" -> Comparable("Integer", value.n)
      [] value.t = "float" -> Err("Parse", "Number cannot be represented as i64")
      [] value.t = "bool" -> Comparable("Boolean", value.b)
      [] OTHER -> Err("Parse", "Not implemented comparison for type.")

\* lexicographic order of two equally long tuples of integers
RECURSIVE TupleCmp(_, _)
TupleCmp(x, y) ==
    IF x = <<>> THEN "Equal"
    ELSE IF Head(x) < Head(y) THEN "Less"
    ELSE IF Head(x) > Head(y) THEN "Greater"
    ELSE TupleCmp(Tail(x), Tail(y))

IntCmp(x, y) == IF x < y THEN "Less" ELSE IF x > y THEN "Greater" ELSE "Equal"

\* the payload order within one variant
PayloadCmp(tag, x, y) ==
    CASE tag = "String" -> IntCmp(StringRank(x), StringRank(y))
      [] tag = "Integer" -> IntCmp(x, y)
      [] tag = "Boolean" -> IntCmp(IF x THEN 1 ELSE 0, IF y THEN 1 ELSE 0)
      [] tag = "ISODateTime" -> TupleCmp(x, y)
      [] tag = "ISODate" -> TupleCmp(x, y)

\* derive(PartialOrd) on ComparableTypes: variants first, payload second
partial_cmp(lhs, rhs) ==
    IF lhs.tag # rhs.tag
    THEN IntCmp(Discriminant(lhs.tag), Discriminant(rhs.tag))
    ELSE PayloadCmp(lhs.tag, lhs.v, rhs.v)

\* derive(PartialEq) on ComparableTypes
comparable_eq(lhs, rhs) == lhs.tag = rhs.tag /\ lhs.v = rhs.v

\* the operator table of Evaluator::eval (BinaryOperation)
apply_operator(operator, lhs, rhs) ==
    CASE operator = "Equals" -> comparable_eq(lhs, rhs)
      [] operator = "NotEquals" -> ~comparable_eq(lhs, rhs)
      [] operator = "LessThan" -> partial_cmp(lhs, rhs) = "Less"
      [] operator = "LessThanOrEqual" -> partial_cmp(lhs, rhs) \in {"Less", "Equal"}
      [] operator = "GreaterThan" -> partial_cmp(lhs, rhs) = "Greater"
      [] operator = "GreaterThanOrEqual" ->
            partial_cmp(lhs, rhs) \in {"Greater", "Equal"}

(***************************************************************************)
(* evaluator/engine.rs: Evaluator.                                         *)
(***************************************************************************)
\* an eval_function that reports an unknown name as a lookup failure
eval_function_lenient(resource, function) ==
    CASE function = "first" -> get_from_array(resource, 0)
      [] function = "empty" -> empty(resource)
      [] function = "last" -> last(resource)
      [] function = "count" -> count(resource)
      [] function = "exists" -> exists(resource)
      [] OTHER -> Err("Parse", "Couldn't evaluate function")

\* Evaluator::eval_function
eval_function(resource, function) ==
    CASE function = "first" -> get_from_array(resource, 0)
      [] function = "empty" -> empty(resource)
      [] function = "last" -> last(resource)
      [] function = "count" -> count(resource)
      [] function = "exists" -> exists(resource)
      [] OTHER -> Err("Unrecoverable", "Couldn't evaluate function")

\* resource.get("resourceType").unwrap_or_default().as_str().unwrap_or("")
resource_type(resource) ==
    IF HasKey(resource, "resourceType")
       /\ GetKey(resource, "resourceType").t = "str"
    THEN GetKey(resource, "resourceType").s
    ELSE ""

\* the Identifier arm of Evaluator::eval, looking the field up before the
\* resource type
eval_identifier_field_first(name, resource) ==
    IF HasKey(resource, name)
    THEN Borrowed(GetKey(resource, name))
    ELSE IF resource_type(resource) = name
         THEN Borrowed(resource)
         ELSE Err("Parse", "Could not find field or resource type")

\* the Identifier arm of Evaluator::eval
eval_identifier(name, resource) ==
    IF resource_type(resource) = name
    THEN Borrowed(resource)
    ELSE IF HasKey(resource, name)
         THEN Borrowed(GetKey(resource, name))
         ELSE Err("Parse", "Could not find field or resource type")

\* a standalone call reported as unrecoverable
standalone_function_unrecoverable ==
    Err("Unrecoverable", "Standalone functions are not implemented")

\* the FunctionCall arm of Evaluator::eval when object is None
standalone_function ==
    Err("Parse", "Standalone functions are not implemented")

\* a member access that pushes a member collection as one value
RECURSIVE flatten_members_nested(_, _)
flatten_members_nested(array, member) ==
    IF array = <<>> THEN <<>>
    ELSE LET item == Head(array)
             rest == flatten_members_nested(Tail(array), member)
         IN  IF HasKey(item, member)
             THEN <<GetKey(item, member)>> \o rest
             ELSE rest

\* the Value::Array arm of MemberAccess: one level of flattening
RECURSIVE flatten_members(_, _)
flatten_members(array, member) ==
    IF array = <<>> THEN <<>>
    ELSE LET item == Head(array)
             rest == flatten_members(Tail(array), member)
         IN  IF HasKey(item, member)
             THEN IF GetKey(item, member).t = "arr"
                  THEN GetKey(item, member).a \o rest
                  ELSE <<GetKey(item, member)>> \o rest
             ELSE rest

\* Evaluator::eval
RECURSIVE eval(_, _, _)
eval(a, expr_ref, resource) ==
    LET expression == get(a.expressions, expr_ref)
    IN  CASE expression.kind = "Identifier" ->
                eval_identifier(expression.name, resource)
          [] expression.kind = "MemberAccess" ->
                LET member_object == eval(a, expression.object, resource)
                IN  IF ~member_object.ok THEN member_object
                    ELSE CASE member_object.v.t = "arr" ->
                                Owned(JArr(flatten_members(member_object.v.a,
                                                           expression.member)))
                           [] member_object.v.t = "obj" ->
                                get_from_object(member_object, expression.member)
                           [] OTHER -> Err("Parse", "Unimplemented: MemberAccess")
          [] expression.kind = "Index" ->
                LET index_object == eval(a, expression.object, resource)
                IN  IF ~index_object.ok THEN index_object
                    ELSE LET index == eval_index(get(a.expressions, expression.index),
                                                 resource)
                         IN  IF ~index.ok THEN index
                             ELSE get_from_array(index_object, index.index)
          [] expression.kind = "FunctionCall" ->
                IF IsSome(expression.object)
                THEN LET function_object ==
                             eval(a, Unwrap(expression.object), resource)
                     IN  IF ~function_object.ok THEN function_object
                         ELSE LET function_expression ==
                                      get(a.expressions, expression.function)
                              IN  IF function_expression.kind = "Identifier"
                                  THEN eval_function(function_object,
                                                     function_expression.name)
                                  ELSE Err("Parse",
                                           "Function name must be an identifier")
                ELSE standalone_function
          [] expression.kind = "BinaryOperation" ->
                LET l == eval(a, expression.lhs, resource)
                IN  IF ~l.ok THEN l
                    ELSE LET lhs == from_value(l.v)
                         IN  IF ~lhs.ok THEN lhs
                             ELSE LET r == eval(a, expression.rhs, resource)
                                  IN  IF ~r.ok THEN r
                                      ELSE LET rhs == from_value(r.v)
                                           IN  IF ~rhs.ok THEN rhs
                                               ELSE Owned(JBool(apply_operator(
                                                        expression.operator, lhs, rhs)))
          [] expression.kind = "String" -> Owned(JStr(expression.literal))
          [] expression.kind = "Integer" -> Owned(JNum(expression.integer))
          [] expression.kind = "ISODate" -> Owned(JStr(expression.date))
          [] expression.kind = "ISODateTime" -> Owned(JStr(expression.date))
          [] OTHER -> Err("Parse", "Expression not implemented")

\* one extraction of an evaluation: the helper called, its argument and
\* what the call left of the argument's value
Extraction(call, argument, left) ==
    [call |-> call, cow |-> argument.cow, before |-> argument.v, after |-> left]

\* the extraction that Evaluator::eval_function makes
eval_function_extractions(resource, function) ==
    CASE function = "first" ->
            <<Extraction("get_from_array", resource, get_from_array_leaves(resource, 0))>>
      [] function = "last" -> <<Extraction("last", resource, last_leaves(resource))>>
      [] OTHER -> <<>>

\* the extractions that Evaluator::eval makes, in the order it makes them
RECURSIVE eval_extractions(_, _, _)
eval_extractions(a, expr_ref, resource) ==
    LET expression == get(a.expressions, expr_ref)
    IN  CASE expression.kind = "MemberAccess" ->
                LET member_object == eval(a, expression.object, resource)
                IN  eval_extractions(a, expression.object, resource)
                    \o (IF member_object.ok /\ member_object.v.t = "obj"
                        THEN <<Extraction("get_from_object", member_object,
                                          get_from_object_leaves(member_object,
                                                                 expression.member))>>
                        ELSE <<>>)
          [] expression.kind = "Index" ->
                LET index_object == eval(a, expression.object, resource)
                    index == eval_index(get(a.expressions, expression.index), resource)
                IN  eval_extractions(a, expression.object, resource)
                    \o (IF index_object.ok /\ index.ok
                        THEN <<Extraction("get_from_array", index_object,
                                          get_from_array_leaves(index_object,
                                                                index.index))>>
                        ELSE <<>>)
          [] expression.kind = "FunctionCall" ->
                IF IsSome(expression.object)
                THEN LET function_object ==
                             eval(a, Unwrap(expression.object), resource)
                         function_expression == get(a.expressions, expression.function)
                     IN  eval_extractions(a, Unwrap(expression.object), resource)
                         \o (IF function_object.ok
                                /\ function_expression.kind = "Identifier"
                             THEN eval_function_extractions(function_object,
                                                            function_expression.name)
                             ELSE <<>>)
                ELSE <<>>
          [] expression.kind = "BinaryOperation" ->
                LET l == eval(a, expression.lhs, resource)
                IN  eval_extractions(a, expression.lhs, resource)
                    \o (IF l.ok /\ from_value(l.v).ok
                        THEN eval_extractions(a, expression.rhs, resource)
                        ELSE <<>>)
          [] OTHER -> <<>>

\* an evaluate that turns every failure into the empty collection
downgrade_all(r) ==
    IF r.ok THEN OkValue(r.v) ELSE OkValue(EmptyArr)

\* Evaluator::evaluate, given what eval returned for ast.start
downgrade(r) ==
    IF r.ok THEN OkValue(r.v)
    ELSE IF r.kind = "Parse" THEN OkValue(EmptyArr)
    ELSE r

evaluate(a, resource) == downgrade(eval(a, a.start, resource))

(***************************************************************************)
(* lexer/token.rs and lexer/tokenizer.rs.  A text is a sequence of         *)
(* one-character strings (all ASCII, so byte and character offsets agree); *)
(* positions are 0-based as in the source.                                 *)
(***************************************************************************)
Letters ==
    {"a", "b", "c", "d", "e", "f", "g", "h", "i", "j", "k", "l", "m", "n", "o",
     "p", "q", "r", "s", "t", "u", "v", "w", "x", "y", "z",
     "A", "B", "C", "D", "E", "F", "G", "H", "I", "J", "K", "L", "M", "N", "O",
     "P", "Q", "R", "S", "T", "U", "V", "W", "X", "Y", "Z"}
DigitChars == <<"0", "1", "2", "3", "4", "5", "6", "7", "8", "9">>
Digits == {DigitChars[i] : i \in 1..10}
DigitValue(c) == (CHOOSE i \in 1..10 : DigitChars[i] = c) - 1
WhitespaceChars == {" ", "\t", "\n", "\r"}

is_ascii_digit(ch) == ch \in Digits
is_ascii_alphabetic(ch) == ch \in Letters
is_ascii_alphanumeric(ch) == ch \in Letters \cup Digits
is_whitespace(ch) == ch \in WhitespaceChars

\* a let binding: Body(x) for x the value of e, with e computed once
With(e, Body(_)) == CHOOSE r \in {Body(x) : x \in {e}} : TRUE

\* input[start..end] as one string
RECURSIVE Join(_)
Join(chars) == IF chars = <<>> THEN "" ELSE Head(chars) \o Join(Tail(chars))
Slice(input, start, end) == Join(SubSeq(input, start + 1, end))

\* Token::new for the kinds without a payload
Token(kind, start, end) == [kind |-> kind, start |-> start, end |-> end]
\* Token::length
length(token) == token.end - token.start

LexErr(msg) == [ok |-> FALSE, msg |-> msg]
LexOk(token, position) == [ok |-> TRUE, token |-> token, position |-> position]

\* Lexer::is_at_end
lexer_is_at_end(input, position) == position >= Len(input)
\* Lexer::current_char: '\0' at the end of the input
current_char(input, position) ==
    IF position < Len(input) THEN input[position + 1] ELSE "NUL"
\* Lexer::advance
lexer_advance(input, position) ==
    IF position < Len(input) THEN position + 1 ELSE position

\* a skip_whitespace that skips one character at most
skip_whitespace_once(input, position) ==
    IF ~lexer_is_at_end(input, position) /\ is_whitespace(current_char(input, position))
    THEN lexer_advance(input, position)
    ELSE position

\* Lexer::skip_whitespace
RECURSIVE skip_whitespace(_, _)
skip_whitespace(input, position) ==
    IF ~lexer_is_at_end(input, position) /\ is_whitespace(current_char(input, position))
    THEN skip_whitespace(input, lexer_advance(input, position))
    ELSE position

\* the loop of Lexer::parse_date
RECURSIVE date_end(_, _)
date_end(input, position) ==
    IF /\ ~lexer_is_at_end(input, position)
       /\ ~is_whitespace(current_char(input, position))
       /\ current_char(input, position) # ")"
       /\ current_char(input, position) # ","
    THEN date_end(input, lexer_advance(input, position))
    ELSE position

\* the longest date literal: a longer span is a date-time
DateSpan == 10

\* Lexer::parse_date
parse_date(input, position) ==
    LET start == lexer_advance(input, position)
        end == date_end(input, start)
    IN  IF end - start > DateSpan
        THEN LexOk(Token("ISODateTime", start, end), end)
        ELSE LexOk(Token("ISODate", start, end), end)

\* the loop of Lexer::parse_string: the position where it stops, or -1 when
\* a backslash is the last character
RECURSIVE string_end(_, _, _)
string_end(input, position, quote_char) ==
    IF ~lexer_is_at_end(input, position) /\ current_char(input, position) # quote_char
    THEN IF current_char(input, position) = "\\"
         THEN LET escaped == lexer_advance(input, position)
              IN  IF lexer_is_at_end(input, escaped) THEN 0 - 1
                  ELSE string_end(input, lexer_advance(input, escaped), quote_char)
         ELSE string_end(input, lexer_advance(input, position), quote_char)
    ELSE position

\* a parse_string whose span covers only the characters between the quotes
parse_string_inner(input, position) ==
    LET start == position
        quote_char == current_char(input, position)
        stop == string_end(input, lexer_advance(input, position), quote_char)
    IN  IF stop < 0 \/ lexer_is_at_end(input, stop)
        THEN LexErr("Unterminated string literal")
        ELSE LexOk(Token("String", start + 1, stop), stop + 1)

\* Lexer::parse_string
parse_string(input, position) ==
    LET start == position
        quote_char == current_char(input, position)
        stop == string_end(input, lexer_advance(input, position), quote_char)
    IN  IF stop < 0 \/ lexer_is_at_end(input, stop)
        THEN LexErr("Unterminated string literal")
        ELSE LexOk(Token("String", start, stop + 1), stop + 1)

\* the loop of Lexer::parse_number: where the run of digits with at most one
\* '.' ends, and whether a '.' was seen
RECURSIVE number_end(_, _, _)
number_end(input, position, is_float) ==
    IF /\ ~lexer_is_at_end(input, position)
       /\ (is_ascii_digit(current_char(input, position))
           \/ current_char(input, position) = ".")
    THEN IF current_char(input, position) = "."
         THEN IF is_float
              THEN [end |-> position, is_float |-> is_float]
              ELSE number_end(input, lexer_advance(input, position), TRUE)
         ELSE number_end(input, lexer_advance(input, position), is_float)
    ELSE [end |-> position, is_float |-> is_float]

\* every run of at most this many digits is an i64
I64Digits == 18

\* str::parse::<i64> of a run of digits
RECURSIVE DigitsValue(_)
DigitsValue(chars) ==
    IF chars = <<>> THEN 0
    ELSE DigitsValue(SubSeq(chars, 1, Len(chars) - 1)) * 10
         + DigitValue(chars[Len(chars)])

\* Lexer::parse_number
parse_number(input, position) ==
    LET start == position
        run == number_end(input, position, FALSE)
        end == run.end
    IN  IF run.is_float
        THEN LexOk([kind |-> "Number", start |-> start, end |-> end,
                    number |-> Slice(input, start, end)], end)
        ELSE IF end - start > I64Digits
             THEN LexErr("Invalid integer")
             ELSE LexOk([kind |-> "Integer", start |-> start, end |-> end,
                         integer |-> DigitsValue(SubSeq(input, start + 1, end))], end)

\* the loop of Lexer::parse_identifier_or_keyword
RECURSIVE identifier_end(_, _)
identifier_end(input, position) ==
    IF /\ ~lexer_is_at_end(input, position)
       /\ (is_ascii_alphanumeric(current_char(input, position))
           \/ current_char(input, position) = "_")
    THEN identifier_end(input, lexer_advance(input, position))
    ELSE position

\* the keyword table of Lexer::parse_identifier_or_keyword
KeywordKind(value) ==
    CASE value = "and" -> "And"
      [] value = "or" -> "Or"
      [] value = "xor" -> "Xor"
      [] value = "not" -> "Not"
      [] value = "is" -> "Is"
      [] value = "as" -> "As"
      [] value = "mod" -> "Mod"
      [] value = "where" -> "Where"
      [] value = "select" -> "Select"
      [] value = "all" -> "All"
      [] value = "any" -> "Any"
      [] value = "exists" -> "Exists"
      [] value = "true" -> "Boolean"
      [] value = "false" -> "Boolean"
      [] OTHER -> "Identifier"

\* Lexer::parse_identifier_or_keyword
parse_identifier_or_keyword(input, position) ==
    LET start_pos == position
        end_pos == identifier_end(input, position)
        value == Slice(input, start_pos, end_pos)
    IN  IF KeywordKind(value) = "Boolean"
        THEN LexOk([kind |-> "Boolean", start |-> start_pos, end |-> end_pos,
                    boolean |-> (value = "true")], end_pos)
        ELSE LexOk(Token(KeywordKind(value), start_pos, end_pos), end_pos)

\* the character '`', which a TLA+ string cannot hold
BackTickChar == "BACKTICK"

\* the one-character tokens of Lexer::next_token
SingleCharKind(ch) ==
    CASE ch = "." -> "Dot"
      [] ch = "+" -> "Plus"
      [] ch = "-" -> "Minus"
      [] ch = "*" -> "Multiply"
      [] ch = "/" -> "Divide"
      [] ch = "=" -> "Equals"
      [] ch = "(" -> "LeftParen"
      [] ch = ")" -> "RightParen"
      [] ch = "[" -> "LeftBracket"
      [] ch = BackTickChar -> "BackTick"
      [] ch = "]" -> "RightBracket"
      [] ch = "," -> "Comma"
      [] ch = "|" -> "Pipe"
      [] ch = "$" -> "Dollar"
      [] ch = "%" -> "Percent"
      [] OTHER -> "none"

\* Lexer::next_token
next_token(input, position) ==
    LET ch == current_char(input, position)
        start == position
        after == lexer_advance(input, position)
    IN  CASE SingleCharKind(ch) # "none" ->
                LexOk(Token(SingleCharKind(ch), start, after), after)
          [] ch = "!" ->
                IF current_char(input, after) = "="
                THEN LexOk(Token("NotEquals", start, lexer_advance(input, after)),
                           lexer_advance(input, after))
                ELSE LexErr("Unexpected character '!'")
          [] ch = "<" ->
                IF current_char(input, after) = "="
                THEN LexOk(Token("LessThanOrEqual", start, lexer_advance(input, after)),
                           lexer_advance(input, after))
                ELSE LexOk(Token("LessThan", start, after), after)
          [] ch = ">" ->
                IF current_char(input, after) = "="
                THEN LexOk(Token("GreaterThanOrEqual", start,
                                 lexer_advance(input, after)),
                           lexer_advance(input, after))
                ELSE LexOk(Token("GreaterThan", start, after), after)
          [] ch = "@" -> parse_date(input, position)
          [] ch \in {"'", "\""} -> parse_string(input, position)
          [] is_ascii_digit(ch) -> parse_number(input, position)
          [] is_ascii_alphabetic(ch) \/ ch = "_" ->
                parse_identifier_or_keyword(input, position)
          [] OTHER -> LexErr("Unexpected character")

\* the loop of Lexer::tokenize
RECURSIVE tokenize_loop(_, _, _)
tokenize_loop(input, position, tokens) ==
    IF lexer_is_at_end(input, position)
    THEN [ok |-> TRUE, tokens |-> Append(tokens, Token("Eof", position, position))]
    ELSE LET at == skip_whitespace(input, position)
         IN  IF lexer_is_at_end(input, at)
             THEN [ok |-> TRUE, tokens |-> Append(tokens, Token("Eof", at, at))]
             ELSE With(next_token(input, at),
                       LAMBDA token :
                           IF ~token.ok THEN token
                           ELSE tokenize_loop(input, token.position,
                                              Append(tokens, token.token)))

\* Lexer::tokenize
tokenize(input) == tokenize_loop(input, 0, <<>>)

(***************************************************************************)
(* parser/ast.rs: FhirParser.  The parser state is the record              *)
(* [position, str_position, ast]; tokens and input are read only.  The     *)
(* field log is the history of the parser's writes to its arena: for each  *)
(* call of add or set_function_object, the handle and the arena before and *)
(* after the call.                                                         *)
(***************************************************************************)
\* FhirParser::new
NewParser == [position |-> 0, str_position |-> 0, ast |-> NewPool, log |-> <<>>]

ParseOk(p, ref) == [ok |-> TRUE, p |-> p, ref |-> ref]
ParseErr(p, msg) == [ok |-> FALSE, p |-> p, err |-> Err("Parse", msg)]

\* FhirParser::peek
peek(tokens, p) == tokens[p.position + 1]
\* FhirParser::previous
previous(tokens, p) == tokens[p.position]
\* FhirParser::is_at_end
is_at_end(tokens, p) == peek(tokens, p).kind = "Eof"

\* FhirParser::advance: the new state and the token returned
advance(tokens, p) ==
    LET q == IF ~is_at_end(tokens, p)
             THEN [p EXCEPT !.str_position = @ + length(peek(tokens, p)),
                            !.position = @ + 1]
             ELSE p
    IN  [p |-> q, token |-> previous(tokens, q)]

\* FhirParser::check
check(tokens, p, token_kind) ==
    IF is_at_end(tokens, p) THEN FALSE ELSE peek(tokens, p).kind = token_kind

\* Token::text(input, start), as FhirParser::token_text calls it: the
\* token's length in characters of the input, from start
text_at(token, input, start) == Slice(input, start, start + length(token))

\* FhirParser::token_text
token_text(token, input, p) == text_at(token, input, p.str_position - length(token))

\* the result of ExprPool::add inside the parser
Added(p, r) ==
    LET q == [p EXCEPT !.ast = r.pool,
                       !.log = Append(@, [call |-> "add", ref |-> Len(r.pool) - 1,
                                          before |-> p.ast, after |-> r.pool])]
    IN  IF r.ok THEN ParseOk(q, r.ref)
        ELSE [ok |-> FALSE, p |-> q, err |-> r.err]

\* a receiver patch that takes its two handles the other way round
patch_receiver_swapped(p, invocation, expression) ==
    LET s == set_function_object(p.ast, expression, invocation)
    IN  ParseOk([p EXCEPT !.ast = s.pool,
                          !.log = Append(@, [call |-> "set_function_object",
                                             ref |-> expression,
                                             before |-> p.ast, after |-> s.pool])],
                s.ref)

\* the receiver patch of FhirParser::parse_expression:
\* expression = self.ast.set_function_object(invocation, expression)
patch_receiver(p, invocation, expression) ==
    LET s == set_function_object(p.ast, invocation, expression)
    IN  ParseOk([p EXCEPT !.ast = s.pool,
                          !.log = Append(@, [call |-> "set_function_object",
                                             ref |-> invocation,
                                             before |-> p.ast, after |-> s.pool])],
                s.ref)

\* FhirParser::parse_identifier
parse_identifier(tokens, input, p) ==
    IF peek(tokens, p).kind = "Identifier"
    THEN LET a == advance(tokens, p)
         IN  Added(a.p, add(a.p.ast, Identifier(token_text(a.token, input, a.p))))
    ELSE ParseErr(p, "Couldn't parse identifier")

\* skipping one backtick in FhirParser::parse_invocation
skip_backtick(tokens, p) ==
    IF peek(tokens, p).kind = "BackTick" THEN advance(tokens, p).p ELSE p

RECURSIVE parse_expression(_, _, _)
RECURSIVE expression_loop(_, _, _, _)
RECURSIVE index_loop(_, _, _, _)
RECURSIVE parse_term(_, _, _)
RECURSIVE parse_invocation(_, _, _)
RECURSIVE argument_loop(_, _, _, _)

\* an argument loop that also ends at the end of the input
argument_loop_to_eof(tokens, input, p, arguments) ==
    IF peek(tokens, p).kind \notin {"RightParen", "Eof"}
    THEN With(parse_expression(tokens, input, p),
              LAMBDA expression :
                  IF ~expression.ok THEN expression
                  ELSE argument_loop(
                           tokens, input,
                           IF peek(tokens, expression.p).kind = "Comma"
                           THEN advance(tokens, expression.p).p
                           ELSE expression.p,
                           Append(arguments, expression.ref)))
    ELSE [ok |-> TRUE, p |-> p, arguments |-> arguments]

\* the argument loop of FhirParser::parse_invocation
argument_loop(tokens, input, p, arguments) ==
    IF peek(tokens, p).kind # "RightParen"
    THEN With(parse_expression(tokens, input, p),
              LAMBDA expression :
                  IF ~expression.ok THEN expression
                  ELSE argument_loop(
                           tokens, input,
                           IF peek(tokens, expression.p).kind = "Comma"
                           THEN advance(tokens, expression.p).p
                           ELSE expression.p,
                           Append(arguments, expression.ref)))
    ELSE [ok |-> TRUE, p |-> p, arguments |-> arguments]

\* FhirParser::parse_invocation
parse_invocation(tokens, input, p) ==
    With(parse_identifier(tokens, input, skip_backtick(tokens, p)),
         LAMBDA identifier :
             IF ~identifier.ok THEN identifier
             ELSE LET q == skip_backtick(tokens, identifier.p)
                  IN  IF peek(tokens, q).kind = "LeftParen"
                      THEN With(argument_loop(tokens, input, advance(tokens, q).p, <<>>),
                                LAMBDA arguments :
                                    IF ~arguments.ok THEN arguments
                                    ELSE LET r == advance(tokens, arguments.p).p
                                         IN  Added(r, add(r.ast,
                                                          FunctionCall(
                                                              None, identifier.ref,
                                                              arguments.arguments))))
                      ELSE ParseOk(q, identifier.ref))

\* FhirParser::parse_term
parse_term(tokens, input, p) ==
    LET kind == peek(tokens, p).kind
    IN  CASE kind = "String" ->
                LET a == advance(tokens, p)
                IN  Added(a.p, add(a.p.ast, StringLit(token_text(a.token, input, a.p))))
          [] kind = "Integer" ->
                LET a == advance(tokens, p)
                IN  Added(a.p, add(a.p.ast, IntegerLit(peek(tokens, p).integer)))
          [] kind = "Number" ->
                LET a == advance(tokens, p)
                IN  Added(a.p, add(a.p.ast, NumberLit(peek(tokens, p).number)))
          [] kind = "Boolean" ->
                LET a == advance(tokens, p)
                IN  Added(a.p, add(a.p.ast, BooleanLit(peek(tokens, p).boolean)))
          [] kind \in {"Identifier", "BackTick"} -> parse_invocation(tokens, input, p)
          [] OTHER -> ParseErr(p, "Couldn't parse term")

\* the bracket loop of FhirParser::parse_expression
index_loop(tokens, input, p, expression) ==
    IF check(tokens, p, "RightBracket")
    THEN ParseOk(advance(tokens, p).p, expression)
    ELSE With(parse_term(tokens, input, p),
              LAMBDA index :
                  IF ~index.ok THEN index
                  ELSE With(Added(index.p,
                                  add(index.p.ast, Index(expression, index.ref))),
                            LAMBDA r :
                                IF ~r.ok THEN r
                                ELSE index_loop(tokens, input, r.p, r.ref)))

\* the loop of parse_expression going on from a call without giving it its
\* receiver
expression_loop_unpatched(tokens, input, p, expression) ==
    IF peek(tokens, p).kind = "Dot"
    THEN With(parse_invocation(tokens, input, advance(tokens, p).p),
              LAMBDA invocation :
                  IF ~invocation.ok THEN invocation
                  ELSE LET invocation_expr == get(invocation.p.ast, invocation.ref)
                       IN  CASE invocation_expr.kind = "FunctionCall" ->
                                   expression_loop(tokens, input, invocation.p,
                                                   invocation.ref)
                             [] invocation_expr.kind = "Identifier" ->
                                   With(Added(invocation.p,
                                              add(invocation.p.ast,
                                                  MemberAccess(expression,
                                                               invocation_expr.name))),
                                        LAMBDA r :
                                            IF ~r.ok THEN r
                                            ELSE expression_loop(tokens, input,
                                                                 r.p, r.ref))
                             [] OTHER ->
                                   ParseErr(invocation.p, "Couldn't parse invocation"))
    ELSE IF peek(tokens, p).kind = "LeftBracket"
         THEN With(index_loop(tokens, input, advance(tokens, p).p, expression),
                   LAMBDA r :
                       IF ~r.ok THEN r
                       ELSE expression_loop(tokens, input, r.p, r.ref))
         ELSE ParseOk(p, expression)

\* the loop of FhirParser::parse_expression
expression_loop(tokens, input, p, expression) ==
    IF peek(tokens, p).kind = "Dot"
    THEN With(parse_invocation(tokens, input, advance(tokens, p).p),
              LAMBDA invocation :
                  IF ~invocation.ok THEN invocation
                  ELSE LET invocation_expr == get(invocation.p.ast, invocation.ref)
                       IN  CASE invocation_expr.kind = "FunctionCall" ->
                                   With(patch_receiver(invocation.p, invocation.ref,
                                                       expression),
                                        LAMBDA s :
                                            expression_loop(tokens, input, s.p, s.ref))
                             [] invocation_expr.kind = "Identifier" ->
                                   With(Added(invocation.p,
                                              add(invocation.p.ast,
                                                  MemberAccess(expression,
                                                               invocation_expr.name))),
                                        LAMBDA r :
                                            IF ~r.ok THEN r
                                            ELSE expression_loop(tokens, input,
                                                                 r.p, r.ref))
                             [] OTHER ->
                                   ParseErr(invocation.p, "Couldn't parse invocation"))
    ELSE IF peek(tokens, p).kind = "LeftBracket"
         THEN With(index_loop(tokens, input, advance(tokens, p).p, expression),
                   LAMBDA r :
                       IF ~r.ok THEN r
                       ELSE expression_loop(tokens, input, r.p, r.ref))
         ELSE ParseOk(p, expression)

\* FhirParser::parse_expression
parse_expression(tokens, input, p) ==
    With(parse_term(tokens, input, p),
         LAMBDA term :
             IF ~term.ok THEN term
             ELSE expression_loop(tokens, input, term.p, term.ref))

\* FhirParser::parse
parse(tokens, input) ==
    With(parse_expression(tokens, input, NewParser),
         LAMBDA start :
             IF ~start.ok THEN start.err
             ELSE [ok |-> TRUE,
                   ast |-> [expressions |-> start.p.ast, start |-> start.ref]])

(***************************************************************************)
(* lib.rs: the library entry points.                                       *)
(***************************************************************************)
\* an evaluate that hands a parser failure to the evaluator's boundary
lib_evaluate_downgrading(expression, resource) ==
    With(tokenize(expression),
         LAMBDA tokens :
             IF ~tokens.ok THEN Err("Parse", "Lexer error: " \o tokens.msg)
             ELSE With(parse(tokens.tokens, expression),
                       LAMBDA parsed_ast :
                           IF ~parsed_ast.ok THEN downgrade(parsed_ast)
                           ELSE evaluate(parsed_ast.ast, resource)))

\* evaluate(expression, resource)
lib_evaluate(expression, resource) ==
    With(tokenize(expression),
         LAMBDA tokens :
             IF ~tokens.ok THEN Err("Parse", "Lexer error: " \o tokens.msg)
             ELSE With(parse(tokens.tokens, expression),
                       LAMBDA parsed_ast :
                           IF ~parsed_ast.ok THEN parsed_ast
                           ELSE evaluate(parsed_ast.ast, resource)))

\* parse(expression)
lib_parse(expression) ==
    With(tokenize(expression),
         LAMBDA tokens :
             IF ~tokens.ok THEN Err("Parse", "Lexer error: " \o tokens.msg)
             ELSE parse(tokens.tokens, expression))

\* an evaluate_ast that starts at the first node of the pool
evaluate_ast_first_node(a, resource) == evaluate([a EXCEPT !.start = 0], resource)

\* evaluate_ast(ast, resource)
evaluate_ast(a, resource) == evaluate(a, resource)

(***************************************************************************)
(* Building an Ast node by node with ExprPool::add, children first, as the *)
(* evaluator's unit tests do (create_member_access_ast,                    *)
(* create_function_call_on_member_ast).  A tree is a node whose child      *)
(* fields hold trees instead of handles.                                   *)
(***************************************************************************)
RECURSIVE Build(_, _)
Build(tree, pool) ==
    CASE tree.kind = "MemberAccess" ->
            LET o == Build(tree.object, pool)
            IN  add(o.pool, MemberAccess(o.ref, tree.member))
      [] tree.kind = "Index" ->
            LET o == Build(tree.object, pool)
                i == Build(tree.index, o.pool)
            IN  add(i.pool, Index(o.ref, i.ref))
      [] tree.kind = "FunctionCall" ->
            IF IsSome(tree.object)
            THEN LET o == Build(Unwrap(tree.object), pool)
                     f == Build(tree.function, o.pool)
                 IN  add(f.pool, FunctionCall(Some(o.ref), f.ref, <<>>))
            ELSE LET f == Build(tree.function, pool)
                 IN  add(f.pool, FunctionCall(None, f.ref, <<>>))
      [] tree.kind = "BinaryOperation" ->
            LET l == Build(tree.lhs, pool)
                r == Build(tree.rhs, l.pool)
            IN  add(r.pool, BinaryOperation(tree.operator, l.ref, r.ref))
      [] OTHER -> add(pool, tree)

MkAst(tree) ==
    LET b == Build(tree, NewPool)
    IN  [expressions |-> b.pool, start |-> b.ref]

(***************************************************************************)
(* The inputs: expressions and documents.                                  *)
(***************************************************************************)
Names == {"Patient", "name", "zz"}
Members == {"name", "given", "zz"}
FunctionNames == {"first", "last", "count", "exists", "empty", "foo"}
Builtins == {"first", "last", "count", "exists", "empty"}

Roots == {Identifier(n) : n \in Names}
Paths ==
    Roots \cup {MemberAccess(r, m) : r \in Roots, m \in Members}
          \cup {MemberAccess(MemberAccess(Identifier("Patient"), "name"), "given")}
IndexNodes ==
    {IntegerLit(i) : i \in (0 - 1)..MaxIndex} \cup {Identifier("zz"), StringLit("a")}
Indexed == {Index(p, i) : p \in Paths, i \in IndexNodes}
AfterIndex ==
    {MemberAccess(Index(Identifier("name"), IntegerLit(i)), "given") :
        i \in 0..MaxIndex}
Receivers == Paths \cup AfterIndex
Calls ==
    {FunctionCall(Some(p), Identifier(f), <<>>) : p \in Receivers, f \in FunctionNames}
    \cup {FunctionCall(None, Identifier(f), <<>>) : f \in FunctionNames}
    \cup {FunctionCall(Some(p), StringLit("first"), <<>>) : p \in Roots}
Literals ==
    {StringLit("a"), IntegerLit(1), NumberLit("1.5"), BooleanLit(TRUE)}
PathTrees == Paths \cup Indexed \cup AfterIndex \cup Calls \cup Literals

Operands ==
    {StringLit("a"), StringLit("b"), StringLit("2020-12-31"), StringLit("2020-360"),
     StringLit("2021-01-01"), StringLit("2021-01-01T10:00:00"),
     IntegerLit(1), IntegerLit(2), Identifier("active"), Identifier("zz")}
Comparisons ==
    {BinaryOperation(op, l, r) : op \in BinaryOperators, l \in Operands, r \in Operands}

\* sequences over S of length at most n
RECURSIVE SeqsUpTo(_, _)
SeqsUpTo(S, n) ==
    IF n = 0 THEN {<<>>}
    ELSE LET shorter == SeqsUpTo(S, n - 1)
         IN  shorter \cup {Append(q, x) : q \in shorter, x \in S}

GivenValues ==
    {JStr("Jim"), EmptyArr, JArr(<<JStr("Peter"), JStr("James")>>),
     JArr(<<JArr(<<JNum(1)>>)>>)}
Elements ==
    {JObj([k \in {"given"} |-> g]) : g \in GivenValues}
    \cup {EmptyObj, JStr("a")}
Collections == {JArr(q) : q \in SeqsUpTo(Elements, MaxLen)}

\* documents of one resource type whose name is a collection
CollectionDocs ==
    {JObj([k \in {"resourceType", "name"} |->
              IF k = "resourceType" THEN JStr("Patient") ELSE c]) : c \in Collections}

\* documents that differ in the resourceType field and in the shape of name
ResourceTypes == {JStr("Patient"), JStr("name"), JNum(1)}
NameShapes ==
    {JStr("Jim"), JObj([k \in {"given"} |-> JArr(<<JStr("Peter"), JStr("James")>>)]),
     JArr(<<JObj([k \in {"given"} |-> JStr("Jim")])>>)}
ShapeDocs ==
    {JObj([k \in {"resourceType", "name"} |-> IF k = "resourceType" THEN rt ELSE n]) :
        rt \in ResourceTypes, n \in NameShapes}
    \cup {JObj([k \in {"name"} |-> n]) : n \in NameShapes}
    \cup {JObj([k \in {"resourceType"} |-> rt]) : rt \in ResourceTypes}
    \cup {EmptyObj, JArr(<<JStr("a")>>), JStr("Patient")}

\* documents with scalar fields to compare
ScalarDocs ==
    {JObj([k \in {"resourceType", "active"} |->
              IF k = "resourceType" THEN JStr("Patient") ELSE s]) :
        s \in {JBool(TRUE), JBool(FALSE), JFloat(1), JNull}}

Inputs ==
    {<<MkAst(t), d>> : t \in PathTrees, d \in CollectionDocs \cup ShapeDocs}
    \cup {<<MkAst(t), d>> : t \in Comparisons, d \in ScalarDocs}

(***************************************************************************)
(* Spec: a caller hands an Ast and a document to Evaluator::evaluate.      *)
(***************************************************************************)
NoResult == [ok |-> FALSE, kind |-> "none", msg |-> ""]
\* a pool of n nodes, as n calls of add leave it
FilledPool(n) == [i \in 1..n |-> Identifier("zz")]
\* the pool p whose first n nodes are those of FilledPool(n), as arena holds it
Stored(p, n) == [filler |-> n, tail |-> SubSeq(p, n + 1, Len(p))]
\* the ExprPool that arena holds
ArenaPool == FilledPool(arena.filler) \o arena.tail

\* no call on the pool yet
NoOp == [n |-> 0, call |-> "none"]

Init ==
    /\ pc = "ready"
    /\ text = <<>>
    /\ \E input \in Inputs : ast = input[1] /\ doc = input[2]
    /\ evalres = NoResult
    /\ result = NoResult
    /\ parsed = NoResult
    /\ astresult = NoResult
    /\ calls = 0
    /\ arena = Stored(NewPool, 0)
    /\ issued = <<>>
    /\ lastop = NoOp

\* Evaluator::evaluate(&ast, &resource)
Evaluate ==
    /\ pc = "ready"
    /\ evalres' = eval(ast, ast.start, doc)
    /\ result' = evaluate(ast, doc)
    /\ pc' = "done"
    /\ UNCHANGED <<text, ast, doc, parsed, astresult, calls, poolvars>>

Next == Evaluate

Spec == Init /\ [][Next]_vars

(***************************************************************************)
(* The library driven from expression text: a client holding one text and  *)
(* one document calls parse, evaluate and evaluate_ast.                    *)
(***************************************************************************)
Chunks ==
    {<<"n", "a", "m", "e">>, <<"f", "i", "r", "s", "t">>, <<".">>, <<"(">>, <<")">>,
     <<"[">>, <<"]">>, <<"0">>, <<" ">>, <<"'">>, <<"!">>}

\* the text made of the chunks of q, in order
RECURSIVE Concat(_)
Concat(q) == IF q = <<>> THEN <<>> ELSE Head(q) \o Concat(Tail(q))

\* the calls .exists() and .empty() as text
ExistsCall == <<".", "e", "x", "i", "s", "t", "s", "(", ")">>
EmptyCall == <<".", "e", "m", "p", "t", "y", "(", ")">>

\* expressions of the repository's tests and their neighbours
\* name[0].given.first()
NameIndexGivenFirst ==
    <<"n", "a", "m", "e", "[", "0", "]", ".", "g", "i", "v", "e", "n", ".",
      "f", "i", "r", "s", "t", "(", ")">>

\* name.given.zz(first(), 0)
ZzOfFirstAndZero ==
    <<"n", "a", "m", "e", ".", "g", "i", "v", "e", "n", ".", "z", "z", "(",
      "f", "i", "r", "s", "t", "(", ")", ",", " ", "0", ")">>

\* zz(@2021, @2021-01-01T10 )
ZzOfDates ==
    <<"z", "z", "(", "@", "2", "0", "2", "1", ",", " ", "@", "2", "0", "2", "1",
      "-", "0", "1", "-", "0", "1", "T", "1", "0", " ", ")">>

\* the backtick-quoted form of a word
Quoted(w) == <<BackTickChar>> \o w \o <<BackTickChar>>
\* name. in front of a text
NameDot(t) == <<"n", "a", "m", "e", ".">> \o t

ScenarioTexts ==
    {NameIndexGivenFirst,
     <<"n", "a", "m", "e", " ", " ", ".", "\t", "g", "i", "v", "e", "n", " ">>,
     Quoted(<<"n", "a", "m", "e">>),
     Quoted(<<"w", "h", "e", "r", "e">>),
     Quoted(<<"g", "_", "1">>),
     NameDot(Quoted(<<"g", "i", "v", "e", "n">>)),
     NameDot(Quoted(<<"w", "h", "e", "r", "e">>)),
     <<"P", "a", "t", "i", "e", "n", "t", ".", "n", "a", "m", "e", ".",
       "g", "i", "v", "e", "n">>,
     <<BackTickChar, "n", "a", "m", "e", BackTickChar, ".", "g", "i", "v", "e", "n">>,
     <<"n", "a", "m", "e", ".", "c", "o", "u", "n", "t", "(", ")">>,
     <<"n", "a", "m", "e", ".", "z", "z", "(", "0", ",", "'", "a", "'", ")">>,
     <<"n", "a", "m", "e", "[", "0", "]", ".", "g", "i", "v", "e", "n", "[", "1", "]">>,
     <<"n", "a", "m", "e", ".", "g", "i", "v", "e", "n", " ", "=", " ", "'", "a", "'">>,
     <<"n", "a", "m", "e", ".", "t", "r", "u", "e">>,
     <<"@", "2", "0", "2", "1", "-", "0", "1", "-", "0", "1">>,
     <<"n", "a", "m", "e">> \o ExistsCall,
     <<"n", "a", "m", "e">> \o EmptyCall,
     <<"n", "a", "m", "e", ".", "z", "z">> \o ExistsCall,
     <<"n", "a", "m", "e", ".", "z", "z">> \o EmptyCall,
     ZzOfFirstAndZero,
     ZzOfDates,
     <<"f", "i", "r", "s", "t", "(", "n", "a", "m", "e", ",">>,
     <<"f", "i", "r", "s", "t", "(", "n", "a", "m", "e", ")", ".",
       "c", "o", "u", "n", "t", "(", ")">>}

Texts ==
    UNION {{Concat(q) : q \in [1..n -> Chunks]} : n \in 0..MaxChunks} \cup ScenarioTexts

ExamplePatient ==
    JObj([k \in {"resourceType", "name"} |->
             IF k = "resourceType" THEN JStr("Patient")
             ELSE JArr(<<JObj([g \in {"given"} |->
                                  JArr(<<JStr("Peter"), JStr("James")>>)]),
                         JObj([g \in {"given"} |-> JArr(<<JStr("Jim")>>)])>>)])

\* a document whose name is a single object
SingleNamePatient ==
    JObj([k \in {"name"} |-> JObj([g \in {"given"} |-> JStr("Jim")])])

\* a document without a resourceType whose name is a collection of one
OneNameDoc ==
    JObj([k \in {"name"} |->
             JArr(<<JObj([g \in {"given"} |-> JArr(<<JStr("Peter"), JStr("James")>>)])>>)])

LibDocs == {ExamplePatient, OneNameDoc, SingleNamePatient, EmptyObj}

InitLib ==
    /\ pc = "lib"
    /\ text \in Texts
    /\ doc \in LibDocs
    /\ ast = [expressions |-> NewPool, start |-> 0]
    /\ evalres = NoResult
    /\ result = NoResult
    /\ parsed = NoResult
    /\ astresult = NoResult
    /\ calls = 0
    /\ arena = Stored(NewPool, 0)
    /\ issued = <<>>
    /\ lastop = NoOp

\* parse(expression)
LibParse ==
    /\ pc = "lib"
    /\ parsed = NoResult
    /\ parsed' = lib_parse(text)
    /\ UNCHANGED <<pc, text, ast, doc, evalres, result, astresult, calls, poolvars>>

\* evaluate(expression, resource)
LibEvaluate ==
    /\ pc = "lib"
    /\ result = NoResult
    /\ result' = lib_evaluate(text, doc)
    /\ UNCHANGED <<pc, text, ast, doc, evalres, parsed, astresult, calls, poolvars>>

\* evaluate_ast(&ast, resource) on the Ast that parse returned
LibEvaluateAst ==
    /\ pc = "lib"
    /\ parsed.ok
    /\ astresult = NoResult
    /\ calls < MaxCalls
    /\ ast' = parsed.ast
    /\ astresult' = evaluate_ast(parsed.ast, doc)
    /\ calls' = calls + 1
    /\ UNCHANGED <<pc, text, doc, evalres, result, parsed, poolvars>>

\* the client turns to another document, keeping the text and the parsed Ast
LibNextDocument ==
    /\ pc = "lib"
    /\ \E d \in LibDocs \ {doc} : doc' = d
    /\ result' = NoResult
    /\ astresult' = NoResult
    /\ UNCHANGED <<pc, text, ast, evalres, parsed, calls, poolvars>>

NextLib == LibParse \/ LibEvaluate \/ LibEvaluateAst \/ LibNextDocument

SpecLib == InitLib /\ [][NextLib]_vars

(***************************************************************************)
(* The arena on its own: a caller holding an ExprPool calls add and        *)
(* set_function_object on it, as FhirParser does.  The pool starts empty   *)
(* or one node short of the last u16 handle.                               *)
(***************************************************************************)
StartPools == {Stored(NewPool, 0), Stored(FilledPool(U16Max), U16Max)}

PoolExpressions == {Identifier("a"), IntegerLit(1), FunctionCall(None, 0, <<0>>)}

InitPool ==
    /\ pc = "pool"
    /\ text = <<>>
    /\ ast = [expressions |-> NewPool, start |-> 0]
    /\ doc = EmptyObj
    /\ evalres = NoResult
    /\ result = NoResult
    /\ parsed = NoResult
    /\ astresult = NoResult
    /\ calls = 0
    /\ arena \in StartPools
    /\ issued = <<>>
    /\ lastop = NoOp

\* ExprPool::add(expr)
PoolAdd ==
    /\ pc = "pool"
    /\ lastop.n < MaxOps
    /\ \E expr \in PoolExpressions :
          LET r == add(ArenaPool, expr)
          IN  /\ arena' = Stored(r.pool, arena.filler)
              /\ issued' = IF r.ok THEN Append(issued, r.ref) ELSE issued
              /\ lastop' = IF r.ok
                           THEN [n |-> lastop.n + 1, call |-> "add", expr |-> expr,
                                 ok |-> TRUE, ref |-> r.ref]
                           ELSE [n |-> lastop.n + 1, call |-> "add", expr |-> expr,
                                 ok |-> FALSE, ref |-> 0]
    /\ UNCHANGED <<pc, text, ast, doc, evalres, result, parsed, astresult, calls>>

\* ExprPool::set_function_object(expr_ref, object) on handles the caller holds
PoolSetFunctionObject ==
    /\ pc = "pool"
    /\ lastop.n < MaxOps
    /\ \E i, j \in 1..Len(issued) :
          LET r == set_function_object(ArenaPool, issued[i], issued[j])
          IN  /\ arena' = Stored(r.pool, arena.filler)
              /\ lastop' = [n |-> lastop.n + 1, call |-> "set_function_object",
                            expr_ref |-> issued[i], object |-> issued[j],
                            ref |-> r.ref]
    /\ UNCHANGED <<pc, text, ast, doc, evalres, result, parsed, astresult, calls, issued>>

NextPool == PoolAdd \/ PoolSetFunctionObject

SpecPool == InitPool /\ [][NextPool]_vars

(***************************************************************************)
(* Properties of the evaluator, checked under Spec.                        *)
(***************************************************************************)
Done == pc = "done"
Root == get(ast.expressions, ast.start)
\* the extractions of the evaluation of ast against doc
Extractions == eval_extractions(ast, ast.start, doc)

\* the root is a call with a receiver; Receiver is what eval returns for it
IsMethodCall == Root.kind = "FunctionCall" /\ IsSome(Root.object)
FunctionNode == get(ast.expressions, Root.function)
Receiver == eval(ast, Unwrap(Root.object), doc)
IsCallOf(f) ==
    IsMethodCall /\ FunctionNode.kind = "Identifier" /\ FunctionNode.name = f

\* what eval returns for the object of a MemberAccess or Index root
Object == eval(ast, Root.object, doc)
IndexNode == get(ast.expressions, Root.index)

\* C1: a failure of the root's eval becomes Ok(empty array) exactly when its
\* kind is Parse; a success Ok(value) is returned as that value; a failure of
\* any other kind (Unrecoverable, IntegerConversion) is returned unchanged.
C1_EvaluateBoundary ==
    Done =>
        /\ evalres.ok => result = OkValue(evalres.v)
        /\ ~evalres.ok =>
              /\ (result = OkValue(EmptyArr)) <=> (evalres.kind = "Parse")
              /\ evalres.kind # "Parse" =>
                    result = evalres /\ result.kind \in {"Unrecoverable", "IntegerConversion"}
C1_Witness ==
    Done /\ ~evalres.ok /\ evalres.kind = "Parse" /\ result = OkValue(EmptyArr)

\* lexing the text fails
LexFails == ~tokenize(text).ok
\* the text lexes and parsing its tokens fails
ParseFails == tokenize(text).ok /\ ~parse(tokenize(text).tokens, text).ok

\* C2: for every text on which lexing or parsing fails, and every document,
\* evaluate(text, document) and parse(text) return an error: once either
\* has returned, what it returned is an Err, never an empty collection or
\* any other Ok value.
C2_SyntaxFailureIsHard ==
    (LexFails \/ ParseFails) =>
        /\ (result # NoResult => ~result.ok /\ result.kind \in ErrorKinds)
        /\ (parsed # NoResult => ~parsed.ok /\ parsed.kind \in ErrorKinds)

\* both entry points have returned an error for a text that lexes and does
\* not parse
C2_Witness ==
    /\ pc = "lib"
    /\ text # <<>>
    /\ ParseFails
    /\ result # NoResult /\ ~result.ok
    /\ parsed # NoResult /\ ~parsed.ok

\* C3 as claimed: a call with a receiver and a name outside first, last,
\* count, exists, empty always ends in an Unrecoverable error.
C3_Original ==
    (Done /\ IsMethodCall /\ FunctionNode.kind = "Identifier"
          /\ FunctionNode.name \notin Builtins)
        => (~result.ok /\ result.kind = "Unrecoverable")
\* C3 (amended): the receiver is evaluated first.  When it evaluates to a
\* value, the unknown name ends the call in an Unrecoverable error and never
\* in an empty collection; when it fails, the receiver's failure is the
\* outcome (a lookup failure becomes the empty collection).
C3_UnknownFunction ==
    (Done /\ IsMethodCall /\ FunctionNode.kind = "Identifier"
          /\ FunctionNode.name \notin Builtins)
        => /\ Receiver.ok => (~result.ok /\ result.kind = "Unrecoverable")
           /\ ~Receiver.ok => (evalres = Receiver /\ result = downgrade(Receiver))
C3_Witness ==
    /\ Done /\ IsCallOf("foo") /\ Receiver.ok
    /\ ~result.ok /\ result.kind = "Unrecoverable"

\* C4 as claimed: a call without a receiver ends the top-level evaluate in an
\* error.
C4_Original ==
    (Done /\ Root.kind = "FunctionCall" /\ ~IsSome(Root.object)) => ~result.ok
\* C4 (amended): a call without a receiver fails inside eval with the
\* lookup/shape kind (Error::Parse), so the top-level evaluate returns the
\* empty collection.
C4_StandaloneFunction ==
    (Done /\ Root.kind = "FunctionCall" /\ ~IsSome(Root.object))
        => /\ ~evalres.ok /\ evalres.kind = "Parse"
           /\ result = OkValue(EmptyArr)
C4_Witness ==
    /\ Done /\ Root.kind = "FunctionCall" /\ ~IsSome(Root.object)
    /\ FunctionNode = Identifier("first")
    /\ result = OkValue(EmptyArr)

\* C5: a comparison whose operands coerce to different ComparableTypes tags
\* yields an error and never a boolean.
Lhs == eval(ast, Root.lhs, doc)
Rhs == eval(ast, Root.rhs, doc)
MismatchedTags ==
    /\ Root.kind = "BinaryOperation"
    /\ Lhs.ok /\ Rhs.ok
    /\ from_value(Lhs.v).ok /\ from_value(Rhs.v).ok
    /\ from_value(Lhs.v).tag # from_value(Rhs.v).tag
C5_MismatchedTagsFail ==
    (Done /\ MismatchedTags) => (~evalres.ok /\ ~result.ok)

\* C6: an identifier n at the root yields the whole document when the
\* document's resourceType equals n (also when the document has a field n),
\* otherwise the field n when the document has one, otherwise the empty
\* collection.
C6_RootIdentifier ==
    (Done /\ Root.kind = "Identifier") =>
        IF HasKey(doc, "resourceType") /\ GetKey(doc, "resourceType") = JStr(Root.name)
        THEN result = OkValue(doc)
        ELSE IF HasKey(doc, Root.name)
             THEN result = OkValue(GetKey(doc, Root.name))
             ELSE result = OkValue(EmptyArr)
C6_Witness ==
    /\ Done /\ Root = Identifier("name")
    /\ HasKey(doc, "resourceType") /\ GetKey(doc, "resourceType") = JStr("name")
    /\ HasKey(doc, "name") /\ GetKey(doc, "name") # doc
    /\ result = OkValue(doc)

\* what one element contributes to a member access
Contribution(e, m) ==
    IF HasKey(e, m)
    THEN IF GetKey(e, m).t = "arr" THEN GetKey(e, m).a ELSE <<GetKey(e, m)>>
    ELSE <<>>
\* where the contribution of element k starts in the output
RECURSIVE Offset(_, _, _)
Offset(xs, m, k) ==
    IF k = 1 THEN 0 ELSE Offset(xs, m, k - 1) + Len(Contribution(xs[k - 1], m))

\* C7: X.m over a collection X is, in element order, the elements of e.m
\* when e.m is a collection, e.m itself when it is not, and nothing when e
\* lacks m: the output is exactly the contributions laid end to end, one
\* level deep, never an error, and empty when no element has m.
C7_MemberAccessFlattens ==
    (Done /\ Root.kind = "MemberAccess" /\ Object.ok /\ Object.v.t = "arr") =>
        LET xs == Object.v.a
            m == Root.member
        IN  /\ result.ok /\ result.v.t = "arr"
            /\ Len(result.v.a) = Offset(xs, m, Len(xs) + 1)
            /\ \A k \in 1..Len(xs) :
                  SubSeq(result.v.a, Offset(xs, m, k) + 1, Offset(xs, m, k + 1))
                      = Contribution(xs[k], m)
            /\ (\A k \in 1..Len(xs) : ~HasKey(xs[k], m)) => result = OkValue(EmptyArr)
C7_Witness ==
    /\ Done /\ Root.kind = "MemberAccess" /\ Object.ok /\ Object.v.t = "arr"
    /\ Len(Object.v.a) = 2
    /\ Object.v.a[1] = JObj([k \in {"given"} |-> JArr(<<JArr(<<JNum(1)>>)>>)])
    /\ Object.v.a[2] = EmptyObj
    /\ Root.member = "given"
    /\ result = OkValue(JArr(<<JArr(<<JNum(1)>>)>>))

\* C8: c[i] with a literal i >= 0 over a collection c is the element at
\* position i when i < length(c); otherwise the top-level result is the
\* empty collection, not an error.
C8_IndexLiteral ==
    (Done /\ Root.kind = "Index" /\ IndexNode.kind = "Integer"
          /\ IndexNode.integer >= 0 /\ Object.ok /\ Object.v.t = "arr") =>
        IF IndexNode.integer < Len(Object.v.a)
        THEN result = OkValue(Object.v.a[IndexNode.integer + 1])
        ELSE result = OkValue(EmptyArr)
C8_Witness ==
    /\ Done /\ Root.kind = "Index" /\ IndexNode = IntegerLit(0)
    /\ Object.ok /\ Object.cow = "Owned" /\ Object.v.t = "arr"
    /\ Len(Object.v.a) >= 2
    /\ Object.v.a[1] # Object.v.a[Len(Object.v.a)]
    /\ result = OkValue(Object.v.a[1])

\* C9: over a non-empty collection first() is the element at position 0 and
\* last() the element at the last position; over the empty collection both
\* give the empty collection at the top level.
C9_FirstLast ==
    (Done /\ (IsCallOf("first") \/ IsCallOf("last"))
          /\ Receiver.ok /\ Receiver.v.t = "arr") =>
        LET xs == Receiver.v.a
        IN  IF xs = <<>> THEN result = OkValue(EmptyArr)
            ELSE IF FunctionNode.name = "first" THEN result = OkValue(xs[1])
            ELSE result = OkValue(xs[Len(xs)])
C9_Witness ==
    /\ Done /\ IsCallOf("last") /\ Receiver.ok /\ Receiver.cow = "Owned"
    /\ Receiver.v.t = "arr" /\ Len(Receiver.v.a) >= 2
    /\ Receiver.v.a[1] # Receiver.v.a[Len(Receiver.v.a)]
    /\ result = OkValue(Receiver.v.a[Len(Receiver.v.a)])

\* C10: count() over a collection, borrowed from the document or built by
\* flattening, is the number of its elements, 0 for the empty collection.
C10_Count ==
    (Done /\ IsCallOf("count") /\ Receiver.ok /\ Receiver.v.t = "arr") =>
        result = OkValue(JNum(Len(Receiver.v.a)))
C10_Witness ==
    /\ Done /\ IsCallOf("count") /\ Receiver.ok /\ Receiver.cow = "Owned"
    /\ Receiver.v = EmptyArr
    /\ result = OkValue(JNum(0))

\* C13: evaluation leaves the caller's document and the arena unchanged
\* whatever the outcome, and every extraction that takes something out of
\* its argument (remove, swap_remove, pop) has an owned argument: a borrowed
\* view of the document is left as it was.
C13_EvaluationFrame ==
    /\ [](\A k \in 1..Len(Extractions) :
             /\ Extractions[k].cow = "Borrowed" =>
                   Extractions[k].after = Extractions[k].before
             /\ Extractions[k].after # Extractions[k].before =>
                   Extractions[k].cow = "Owned")
    /\ [][doc' = doc /\ ast' = ast]_vars
\* an evaluation that reads a field through a borrowed view and then pops
\* the last element of a collection it built itself
C13_Witness ==
    /\ Done /\ result.ok
    /\ \E j, k \in 1..Len(Extractions) :
          /\ Extractions[j].cow = "Borrowed"
          /\ Extractions[j].call = "get_from_object"
          /\ Extractions[k].cow = "Owned"
          /\ Extractions[k].call = "last"
          /\ Extractions[k].after # Extractions[k].before

\* the outcome of an operator on two operands in the order ord
Holds(operator, ord) ==
    CASE operator = "Equals" -> ord = "Equal"
      [] operator = "NotEquals" -> ord # "Equal"
      [] operator = "LessThan" -> ord = "Less"
      [] operator = "LessThanOrEqual" -> ord # "Greater"
      [] operator = "GreaterThan" -> ord = "Greater"
      [] operator = "GreaterThanOrEqual" -> ord # "Less"

\* the place of a date string in the calendar, as a number of days
DayNumber(s) == DateTable[s][1] * 372 + DateTable[s][2] * 31 + DateTable[s][3]

IsDate(s) == s \in DOMAIN DateTable
IsDateTime(s) == s \notin DOMAIN DateTable /\ s \in DOMAIN DateTimeTable

\* both operands of the root comparison evaluate to strings
StringOperands ==
    /\ Root.kind = "BinaryOperation"
    /\ Lhs.ok /\ Rhs.ok
    /\ Lhs.v.t = "str" /\ Rhs.v.t = "str"

\* C20: a comparison of two strings that are both ISO-8601 dates yields,
\* for each of the six operators, the boolean that the calendar order of
\* the two dates gives, whatever the byte order of the two strings; a string
\* that is a date is taken as a date, a string that is not a date but a
\* date-time as a date-time, and two strings that are neither are compared
\* as strings, in byte order.
C20_CalendarOrder ==
    (Done /\ StringOperands) =>
        LET l == Lhs.v.s
            r == Rhs.v.s
        IN  /\ (IsDate(l) /\ IsDate(r)) =>
                  result = OkValue(JBool(Holds(Root.operator,
                                               IntCmp(DayNumber(l), DayNumber(r)))))
            /\ (IsDateTime(l) /\ IsDateTime(r)) =>
                  result = OkValue(JBool(Holds(Root.operator,
                                               TupleCmp(DateTimeTable[l],
                                                        DateTimeTable[r]))))
            /\ (~IsDate(l) /\ ~IsDateTime(l) /\ ~IsDate(r) /\ ~IsDateTime(r)) =>
                  result = OkValue(JBool(Holds(Root.operator,
                                               IntCmp(StringRank(l), StringRank(r)))))

\* 25 December 2020 in ordinal form is found earlier than 31 December 2020,
\* though its string is the greater one in byte order
C20_Witness ==
    /\ Done /\ StringOperands
    /\ Root.operator = "LessThan"
    /\ Lhs.v.s = "2020-360" /\ Rhs.v.s = "2020-12-31"
    /\ StringRank(Lhs.v.s) > StringRank(Rhs.v.s)
    /\ result = OkValue(JBool(TRUE))

\* C26 as claimed: an Index whose index is not an integer literal always
\* ends in an Unrecoverable error.
C26_Original ==
    (Done /\ Root.kind = "Index" /\ IndexNode.kind # "Integer")
        => (~result.ok /\ result.kind = "Unrecoverable")
\* C26 (amended): the object is evaluated first.  When it evaluates to a
\* value, whatever the value, an index that is not an integer literal ends
\* the evaluation in an Unrecoverable error, which evaluate returns as it is;
\* when the object fails, the object's failure is the outcome (a lookup
\* failure of the object becomes the empty collection).
C26_IndexKind ==
    (Done /\ Root.kind = "Index" /\ IndexNode.kind # "Integer")
        => /\ Object.ok =>
                 /\ ~evalres.ok /\ evalres.kind = "Unrecoverable"
                 /\ ~result.ok /\ result.kind = "Unrecoverable"
           /\ ~Object.ok => (evalres = Object /\ result = downgrade(Object))
\* name[zz] on a document whose name is a collection of two elements
C26_Witness ==
    /\ Done /\ Root.kind = "Index" /\ IndexNode = Identifier("zz")
    /\ Object.ok /\ Object.v.t = "arr" /\ Len(Object.v.a) = 2
    /\ ~result.ok /\ result.kind = "Unrecoverable"

\* C27 as claimed: an Index whose index is a negative integer literal always
\* ends in an IntegerConversion error.
C27_Original ==
    (Done /\ Root.kind = "Index" /\ IndexNode.kind = "Integer"
          /\ IndexNode.integer < 0)
        => (~result.ok /\ result.kind = "IntegerConversion")
\* C27 (amended): the object is evaluated first.  When it evaluates to a
\* value, a negative integer literal as index ends the evaluation in an
\* IntegerConversion error, which evaluate returns as it is, and never in an
\* element or the empty collection; when the object fails, the object's
\* failure is the outcome (a lookup failure of the object becomes the empty
\* collection).
C27_NegativeIndex ==
    (Done /\ Root.kind = "Index" /\ IndexNode.kind = "Integer"
          /\ IndexNode.integer < 0)
        => /\ Object.ok =>
                 /\ ~evalres.ok /\ evalres.kind = "IntegerConversion"
                 /\ ~result.ok /\ result.kind = "IntegerConversion"
           /\ ~Object.ok => (evalres = Object /\ result = downgrade(Object))
\* name[-1] on a document whose name is a collection of two elements
C27_Witness ==
    /\ Done /\ Root.kind = "Index" /\ IndexNode = IntegerLit(0 - 1)
    /\ Object.ok /\ Object.v.t = "arr" /\ Len(Object.v.a) = 2
    /\ ~result.ok /\ result.kind = "IntegerConversion"

\* the values directly inside a value
Parts(v) ==
    IF v.t = "obj" THEN {v.o[k] : k \in DOMAIN v.o}
    ELSE IF v.t = "arr" THEN {v.a[i] : i \in 1..Len(v.a)}
    ELSE {}
\* the document and the values up to two levels inside it
DocValues == {doc} \cup Parts(doc) \cup UNION {Parts(x) : x \in Parts(doc)}

\* two extractions agree: the same value, or the same failure
SameOutcome(x, y) == x.ok = y.ok /\ (IF x.ok THEN x.v = y.v ELSE x = y)

\* C29: on every value v of the document, owned or borrowed, get_from_array
\* at each index, last, and get_from_object at each key give the same value
\* or the same lookup failure.
C29_OwnedAsBorrowed ==
    Done =>
        \A v \in DocValues :
            /\ \A i \in 0..(MaxIndex + 1) :
                  SameOutcome(get_from_array(Owned(v), i), get_from_array(Borrowed(v), i))
            /\ SameOutcome(last(Owned(v)), last(Borrowed(v)))
            /\ \A k \in Members \cup {"resourceType"} :
                  SameOutcome(get_from_object(Owned(v), k),
                              get_from_object(Borrowed(v), k))

\* eval has taken last() of an owned collection of two different elements,
\* and the document holds a collection of two different elements too
C29_Witness ==
    /\ Done /\ IsCallOf("last") /\ Receiver.ok /\ Receiver.cow = "Owned"
    /\ Receiver.v.t = "arr" /\ Len(Receiver.v.a) = 2
    /\ Receiver.v.a[1] # Receiver.v.a[2]
    /\ evalres.ok /\ evalres.v = last(Borrowed(Receiver.v)).v
    /\ \E v \in DocValues : v.t = "arr" /\ Len(v.a) = 2 /\ v.a[1] # v.a[2]

(***************************************************************************)
(* Properties of the text entry points, checked under SpecLib.             *)
(***************************************************************************)
HasSuffix(t, suffix) ==
    Len(t) >= Len(suffix) /\ SubSeq(t, Len(t) - Len(suffix) + 1, Len(t)) = suffix
WithoutSuffix(t, suffix) == SubSeq(t, 1, Len(t) - Len(suffix))

\* what eval returns for the path x against the caller's document
PathValue(x) ==
    LET p == lib_parse(x)
    IN  IF p.ok THEN eval(p.ast, p.ast.start, doc) ELSE p
IsCollection(x) == PathValue(x).ok /\ PathValue(x).v.t = "arr"

\* C11: for a path x that evaluates to a collection, evaluate of the text
\* x.exists() returns the boolean "the collection is non-empty", evaluate of
\* x.empty() the boolean "the collection is empty", and the two are each
\* other's negation.
C11_ExistsEmptyText ==
    /\ (result # NoResult /\ HasSuffix(text, ExistsCall)
            /\ IsCollection(WithoutSuffix(text, ExistsCall))) =>
          /\ result =
                OkValue(JBool(Len(PathValue(WithoutSuffix(text, ExistsCall)).v.a) # 0))
          /\ lib_evaluate(WithoutSuffix(text, ExistsCall) \o EmptyCall, doc)
                = OkValue(JBool(~result.v.b))
    /\ (result # NoResult /\ HasSuffix(text, EmptyCall)
            /\ IsCollection(WithoutSuffix(text, EmptyCall))) =>
          result = OkValue(JBool(Len(PathValue(WithoutSuffix(text, EmptyCall)).v.a) = 0))

\* C12: evaluate_ast on the one Ast that parse(text) returned gives, for the
\* document at hand, what evaluate(text, document) gives (value or error),
\* whichever documents were evaluated before and however often; the Ast the
\* client holds stays the one parse returned.
C12_AstReuse ==
    astresult # NoResult =>
        /\ parsed = lib_parse(text)
        /\ ast = parsed.ast
        /\ astresult = lib_evaluate(text, doc)
\* the Ast has been evaluated the most times, and the last evaluation gives
\* a value of the document
C12_Witness ==
    /\ calls = MaxCalls
    /\ doc = ExamplePatient
    /\ astresult = OkValue(JStr("Peter"))
    /\ astresult = lib_evaluate(text, doc)

\* the document's name is a collection whose first element has
\* given = ["Peter", "James"]
FirstNameIsPeterJames ==
    /\ HasKey(doc, "name") /\ GetKey(doc, "name").t = "arr"
    /\ Len(GetKey(doc, "name").a) > 0
    /\ HasKey(GetKey(doc, "name").a[1], "given")
    /\ GetKey(GetKey(doc, "name").a[1], "given")
           = JArr(<<JStr("Peter"), JStr("James")>>)

\* C14: through lexer, parser and evaluator, evaluate of the text
\* name[0].given.first() against a document whose name is a collection whose
\* first element has given = ["Peter", "James"] returns the value "Peter".
C14_EndToEnd ==
    (result # NoResult /\ text = NameIndexGivenFirst /\ FirstNameIsPeterJames)
        => result = OkValue(JStr("Peter"))
\* the call has returned "Peter" for a document with a second name
C14_Witness ==
    /\ text = NameIndexGivenFirst
    /\ FirstNameIsPeterJames
    /\ Len(GetKey(doc, "name").a) > 1
    /\ result = OkValue(JStr("Peter"))

\* w has the lexical form of an identifier
IsWord(w) ==
    /\ Len(w) > 0
    /\ is_ascii_alphabetic(w[1]) \/ w[1] = "_"
    /\ \A i \in 1..Len(w) : is_ascii_alphanumeric(w[i]) \/ w[i] = "_"
\* the text between the first and the last character of t
Inner(t) == SubSeq(t, 2, Len(t) - 1)
IsQuotedWord(t) ==
    Len(t) > 2 /\ t[1] = BackTickChar /\ t[Len(t)] = BackTickChar /\ IsWord(Inner(t))
\* the text after name.
AfterNameDot(t) == SubSeq(t, 6, Len(t))

\* C15: for every word n of identifier form, keywords included, the text `n`
\* parses to the Ast of the one node Identifier(n), and name.`n` parses to
\* the member access of n on name and evaluates like it.
C15_BacktickIdentifier ==
    /\ (parsed # NoResult /\ IsQuotedWord(text)) =>
          /\ parsed.ok
          /\ parsed.ast = [expressions |-> <<Identifier(Join(Inner(text)))>>,
                           start |-> 0]
    /\ (parsed # NoResult /\ Len(text) > 5 /\ text = NameDot(AfterNameDot(text))
            /\ IsQuotedWord(AfterNameDot(text))) =>
          /\ parsed.ok
          /\ get(parsed.ast.expressions, parsed.ast.start)
                = MemberAccess(0, Join(Inner(AfterNameDot(text))))
          /\ get(parsed.ast.expressions, 0) = Identifier("name")
    /\ (result # NoResult /\ Len(text) > 5 /\ text = NameDot(AfterNameDot(text))
            /\ IsQuotedWord(AfterNameDot(text))) =>
          result = evaluate(MkAst(MemberAccess(Identifier("name"),
                                               Join(Inner(AfterNameDot(text))))),
                            doc)

\* the characters of t that are not whitespace
NonWhitespace(t) == {i \in 1..Len(t) : ~is_whitespace(t[i])}

\* C16: tokenize terminates on every text, because skipping whitespace ends
\* at the end of the text or on a character that is not whitespace, and a
\* scanning step that succeeds there moves the position forward by at least
\* one character and never past the end.  When tokenize succeeds the result
\* is not empty, its last token is Eof, no earlier token is Eof, and
\* whitespace gives no token: there are at most as many tokens before Eof as
\* characters that are not whitespace.
C16_TokenizeTerminates ==
    parsed # NoResult =>
        /\ \A pos \in 0..Len(text) :
              LET at == skip_whitespace(text, pos)
              IN  /\ pos <= at /\ at <= Len(text)
                  /\ at < Len(text) =>
                        /\ ~is_whitespace(text[at + 1])
                        /\ next_token(text, at).ok =>
                              /\ at < next_token(text, at).position
                              /\ next_token(text, at).position <= Len(text)
        /\ tokenize(text).ok =>
              LET tokens == tokenize(text).tokens
              IN  /\ Len(tokens) >= 1
                  /\ tokens[Len(tokens)].kind = "Eof"
                  /\ \A k \in 1..(Len(tokens) - 1) : tokens[k].kind # "Eof"
                  /\ Len(tokens) - 1 <= Cardinality(NonWhitespace(text))
\* parse has tokenized a text with two whitespace characters in a row
\* between two tokens
C16_Witness ==
    /\ parsed # NoResult
    /\ tokenize(text).ok
    /\ Len(tokenize(text).tokens) = 4
    /\ \E i \in 2..(Len(text) - 2) : is_whitespace(text[i]) /\ is_whitespace(text[i + 1])

\* what the parser rule makes of the text t from a new parser, when t lexes
Parsing(rule(_, _, _), t) ==
    With(tokenize(t),
         LAMBDA tokens :
             IF ~tokens.ok THEN [lexed |-> FALSE]
             ELSE With(rule(tokens.tokens, t, NewParser),
                       LAMBDA r :
                           [lexed |-> TRUE, tokens |-> tokens.tokens, ok |-> r.ok,
                            pool |-> r.p.ast, position |-> r.p.position,
                            str_position |-> r.p.str_position, log |-> r.p.log,
                            ref |-> IF r.ok THEN r.ref ELSE 0]))

\* the rule accepted the text and consumed all of it
Whole(x) == x.lexed /\ x.ok /\ x.tokens[x.position + 1].kind = "Eof"

\* the text is one call f(args): parse_invocation accepts all of it as a call
IsCallText(x) == Whole(x) /\ get(x.pool, x.ref).kind = "FunctionCall"

Kinds(tokens) == [i \in 1..Len(tokens) |-> tokens[i].kind]
KindAt(tokens, i) == IF i \in 1..Len(tokens) THEN tokens[i].kind ELSE "Eof"

\* a node whose handles are moved up by n
Shift(node, n) ==
    CASE node.kind = "FunctionCall" ->
            FunctionCall(IF IsSome(node.object) THEN Some(Unwrap(node.object) + n)
                         ELSE None,
                         node.function + n,
                         [i \in 1..Len(node.arguments) |-> node.arguments[i] + n])
      [] node.kind = "MemberAccess" -> MemberAccess(node.object + n, node.member)
      [] node.kind = "Index" -> Index(node.object + n, node.index + n)
      [] OTHER -> node

\* token j is the name of a call: an identifier followed by a left paren,
\* a backtick between them allowed
IsCallName(tokens, j) ==
    /\ KindAt(tokens, j) = "Identifier"
    /\ \/ KindAt(tokens, j + 1) = "LeftParen"
       \/ KindAt(tokens, j + 1) = "BackTick" /\ KindAt(tokens, j + 2) = "LeftParen"

\* token j comes after a dot, a backtick between them allowed
AfterDot(tokens, j) ==
    \/ KindAt(tokens, j - 1) = "Dot"
    \/ KindAt(tokens, j - 1) = "BackTick" /\ KindAt(tokens, j - 2) = "Dot"

\* the FunctionCall nodes of a pool with a receiver, and those without
WithObject(pool) ==
    {i \in 1..Len(pool) : pool[i].kind = "FunctionCall" /\ IsSome(pool[i].object)}
WithoutObject(pool) ==
    {i \in 1..Len(pool) : pool[i].kind = "FunctionCall" /\ ~IsSome(pool[i].object)}

\* C19: when the text is L.f(args), L an expression the parser accepts
\* whole and f(args) a call, parse accepts it; the nodes of L come first and
\* unchanged, the nodes of f(args) follow as parse builds them for f(args)
\* alone, and the start node is the FunctionCall of f with object the handle
\* of L, function the Identifier f and the arguments in source order.  In
\* every accepted text the calls with a receiver are those written after a
\* dot, and every other call has object None.
C19_ReceiverPatch ==
    parsed # NoResult =>
        /\ \A k \in 1..Len(text) :
              text[k] = "." =>
                 With(Parsing(parse_expression, SubSeq(text, 1, k - 1)),
                      LAMBDA L :
                 With(Parsing(parse_invocation, SubSeq(text, k + 1, Len(text))),
                      LAMBDA C :
                 With(tokenize(text),
                      LAMBDA T :
                          (/\ Whole(L)
                           /\ IsCallText(C)
                           /\ T.ok
                           /\ Kinds(T.tokens)
                                 = SubSeq(Kinds(L.tokens), 1, Len(L.tokens) - 1)
                                      \o <<"Dot">> \o Kinds(C.tokens)) =>
                              LET n == Len(L.pool)
                                  call == get(C.pool, C.ref)
                              IN  /\ parsed.ok
                                  /\ Len(parsed.ast.expressions) = n + Len(C.pool)
                                  /\ SubSeq(parsed.ast.expressions, 1, n) = L.pool
                                  /\ parsed.ast.start = n + C.ref
                                  /\ get(parsed.ast.expressions, parsed.ast.start)
                                        = FunctionCall(
                                              Some(L.ref), n + call.function,
                                              [i \in 1..Len(call.arguments) |->
                                                  n + call.arguments[i]])
                                  /\ get(parsed.ast.expressions, n + call.function)
                                        = get(C.pool, call.function)
                                  /\ get(C.pool, call.function).kind = "Identifier"
                                  /\ \A i, j \in 1..Len(call.arguments) :
                                        i < j => call.arguments[i] < call.arguments[j]
                                  /\ \A i \in 1..Len(C.pool) :
                                        i # C.ref + 1 =>
                                           parsed.ast.expressions[n + i]
                                              = Shift(C.pool[i], n))))
        /\ parsed.ok =>
              With(Parsing(parse_expression, text),
                   LAMBDA T :
                       /\ Cardinality(WithObject(parsed.ast.expressions))
                             = Cardinality({j \in 1..T.position :
                                               /\ IsCallName(T.tokens, j)
                                               /\ AfterDot(T.tokens, j)})
                       /\ Cardinality(WithoutObject(parsed.ast.expressions))
                             = Cardinality({j \in 1..T.position :
                                               /\ IsCallName(T.tokens, j)
                                               /\ ~AfterDot(T.tokens, j)}))

\* name.given.zz(first(), 0) is parsed: the call of zz has the member access
\* name.given as its object and two arguments, the first of which is the
\* call of first, without an object
C19_Witness ==
    /\ text = ZzOfFirstAndZero
    /\ parsed # NoResult
    /\ parsed.ok
    /\ LET pool == parsed.ast.expressions
           root == get(pool, parsed.ast.start)
       IN  /\ root.kind = "FunctionCall"
           /\ IsSome(root.object)
           /\ get(pool, Unwrap(root.object)) = MemberAccess(0, "given")
           /\ get(pool, root.function) = Identifier("zz")
           /\ Len(root.arguments) = 2
           /\ get(pool, root.arguments[1]).kind = "FunctionCall"
           /\ get(pool, root.arguments[1]).object = None
           /\ get(pool, root.arguments[2]) = IntegerLit(0)

\* the handles that a node holds
NodeHandles(node) ==
    CASE node.kind = "FunctionCall" ->
            (IF IsSome(node.object) THEN {Unwrap(node.object)} ELSE {})
            \cup {node.function}
            \cup {node.arguments[i] : i \in 1..Len(node.arguments)}
      [] node.kind = "MemberAccess" -> {node.object}
      [] node.kind = "Index" -> {node.object, node.index}
      [] node.kind = "BinaryOperation" -> {node.lhs, node.rhs}
      [] OTHER -> {}

\* C21: in every parse, ended well or not, each write to the arena is an add,
\* which leaves the nodes stored before as they are, or a receiver patch;
\* a patch is made on a FunctionCall node without an object that is the last
\* node of the arena and whose handle no node holds, it changes that node
\* alone, and no handle is patched twice; a node of another kind is in the
\* final arena as it was added.
C21_WriteOnce ==
    parsed # NoResult =>
        With(Parsing(parse_expression, text),
             LAMBDA T :
                 T.lexed =>
                     /\ \A k \in 1..Len(T.log) :
                           LET e == T.log[k]
                           IN  /\ e.before = IF k = 1 THEN NewPool ELSE T.log[k - 1].after
                               /\ e.call \in {"add", "set_function_object"}
                               /\ e.call = "add" =>
                                     /\ Len(e.after) = Len(e.before) + 1
                                     /\ SubSeq(e.after, 1, Len(e.before)) = e.before
                                     /\ e.ref = Len(e.before)
                                     /\ e.after[e.ref + 1].kind # "FunctionCall" =>
                                           T.pool[e.ref + 1] = e.after[e.ref + 1]
                               /\ e.call = "set_function_object" =>
                                     /\ e.ref = Len(e.before) - 1
                                     /\ e.before[e.ref + 1].kind = "FunctionCall"
                                     /\ ~IsSome(e.before[e.ref + 1].object)
                                     /\ \A i \in 1..Len(e.before) :
                                           e.ref \notin NodeHandles(e.before[i])
                                     /\ [e.after EXCEPT ![e.ref + 1] = e.before[e.ref + 1]]
                                           = e.before
                                     /\ \A j \in 1..Len(T.log) :
                                           (/\ T.log[j].call = "set_function_object"
                                            /\ T.log[j].ref = e.ref) => j = k
                     /\ T.pool = IF T.log = <<>> THEN NewPool
                                 ELSE T.log[Len(T.log)].after
                     /\ parsed.ok => parsed.ast.expressions = T.pool)

\* a parse has patched a call that has two arguments, after seven adds
C21_Witness ==
    /\ parsed # NoResult
    /\ parsed.ok
    /\ With(Parsing(parse_expression, text),
            LAMBDA T :
                \E k \in 1..Len(T.log) :
                    /\ k > 7
                    /\ T.log[k].call = "set_function_object"
                    /\ Len(T.log[k].before[T.log[k].ref + 1].arguments) = 2
                    /\ T.log[k].after # T.log[k].before)

\* the greatest depth of recursion of eval from the node h of a pool
RECURSIVE Depth(_, _)
Depth(pool, h) ==
    LET below == {Depth(pool, c) : c \in NodeHandles(get(pool, h))}
    IN  1 + (IF below = {} THEN 0 ELSE CHOOSE d \in below : \A x \in below : x <= d)

\* C22: in the Ast of a successful parse the start handle is a handle of the
\* arena, and every handle that a node holds is the handle of a node stored
\* before it; so no node reaches itself, and eval from the start descends
\* through at most as many nodes as the arena has.
C22_HandlesPointBack ==
    (parsed # NoResult /\ parsed.ok) =>
        LET pool == parsed.ast.expressions
        IN  /\ parsed.ast.start \in 0..(Len(pool) - 1)
            /\ \A i \in 1..Len(pool) :
                  \A h \in NodeHandles(pool[i]) : 0 <= h /\ h < i - 1
            /\ Depth(pool, parsed.ast.start) <= Len(pool)

\* name[0].given.first() is parsed: seven nodes, the call at the start with
\* the member access as its object, four nodes deep
C22_Witness ==
    /\ text = NameIndexGivenFirst
    /\ parsed # NoResult
    /\ parsed.ok
    /\ Len(parsed.ast.expressions) = 7
    /\ get(parsed.ast.expressions, parsed.ast.start).object = Some(4)
    /\ Depth(parsed.ast.expressions, parsed.ast.start) = 4

\* how many of the first upto tokens are of a kind
CountKind(tokens, upto, kind) == Cardinality({j \in 1..upto : tokens[j].kind = kind})

\* C23: on the tokens of every text, which end with Eof, parse ends with an
\* Ast or with a syntax error; the parser's position ends on a token of the
\* sequence, at or before Eof, and after at least one token when an Ast is
\* returned, so peek and previous read inside the sequence; and an Ast is
\* returned only when every parenthesis and bracket the parser went into
\* was closed before Eof, so an argument list or bracket group left open at
\* Eof gives a syntax error.
C23_ParseInBounds ==
    parsed # NoResult =>
        /\ parsed.ok \/ parsed.kind = "Parse"
        /\ With(Parsing(parse_expression, text),
                LAMBDA T :
                    T.lexed =>
                        /\ T.tokens[Len(T.tokens)].kind = "Eof"
                        /\ T.ok = parsed.ok
                        /\ 0 <= T.position /\ T.position <= Len(T.tokens) - 1
                        /\ T.ok =>
                              /\ T.position >= 1
                              /\ CountKind(T.tokens, T.position, "LeftParen")
                                    = CountKind(T.tokens, T.position, "RightParen")
                              /\ CountKind(T.tokens, T.position, "LeftBracket")
                                    = CountKind(T.tokens, T.position, "RightBracket"))

\* first(name, has ended in a syntax error with the parser at Eof, inside
\* the argument list
C23_Witness ==
    /\ parsed # NoResult
    /\ ~parsed.ok /\ parsed.kind = "Parse"
    /\ With(Parsing(parse_expression, text),
            LAMBDA T :
                /\ T.lexed
                /\ Len(T.tokens) = 5
                /\ T.tokens[2].kind = "LeftParen"
                /\ T.tokens[4].kind = "Comma"
                /\ T.position = 4)

\* the tokens and the nodes that carry text of the source
IsTextToken(token) == token.kind \in {"Identifier", "String"}
IsTextNode(node) == node.kind \in {"Identifier", "String"}
NodeText(node) == IF node.kind = "Identifier" THEN node.name ELSE node.literal

\* C24: for every text that lexer and parser accept, the Identifier and
\* String nodes of the arena are, in order, the Identifier and String tokens
\* that the parser consumed, each node holding the characters of the text
\* from its token's start to its token's end; and the parser's text cursor
\* ends at the end offset of the last token consumed.
C24_TokenText ==
    (parsed # NoResult /\ parsed.ok) =>
        With(Parsing(parse_expression, text),
             LAMBDA T :
                 LET tokens == SelectSeq(SubSeq(T.tokens, 1, T.position), IsTextToken)
                     nodes == SelectSeq(T.pool, IsTextNode)
                 IN  /\ Len(nodes) = Len(tokens)
                     /\ \A k \in 1..Len(nodes) :
                           NodeText(nodes[k])
                              = Slice(text, tokens[k].start, tokens[k].end)
                     /\ T.str_position = T.tokens[T.position].end)

\* C25: parse returns an Ast only when the expression rule derives the whole
\* token sequence: when parse succeeds, the parser stands at Eof, so a
\* complete expression followed by further tokens is a syntax error.
C25_WholeInput ==
    (parsed # NoResult /\ parsed.ok) =>
        With(Parsing(parse_expression, text),
             LAMBDA T : T.tokens[T.position + 1].kind = "Eof")

\* C28: in every text the parser accepts, each bracket group wraps the
\* running expression in exactly one Index node: the arena has as many Index
\* nodes as the parser consumed left brackets.
C28_OneIndexPerGroup ==
    (parsed # NoResult /\ parsed.ok) =>
        With(Parsing(parse_expression, text),
             LAMBDA T :
                 Cardinality({i \in 1..Len(T.pool) : T.pool[i].kind = "Index"})
                    = CountKind(T.tokens, T.position, "LeftBracket"))

\* the token kinds of date literals
IsDateToken(token) == token.kind \in {"ISODate", "ISODateTime"}

\* C30: in the token sequence tokenize returns for a text, every token has
\* start <= end <= length of the text, the end of a token is at most the
\* start of the next one, every character between two consecutive spans is
\* whitespace or the @ right before a date token, and the last token is Eof
\* with an empty span at the end of the text.
C30_TokenSpans ==
    With(tokenize(text),
         LAMBDA T :
             T.ok =>
                 LET tokens == T.tokens
                     n == Len(tokens)
                 IN  /\ n >= 1
                     /\ \A k \in 1..n :
                           /\ 0 <= tokens[k].start
                           /\ tokens[k].start <= tokens[k].end
                           /\ tokens[k].end <= Len(text)
                     /\ \A k \in 1..(n - 1) :
                           /\ tokens[k].end <= tokens[k + 1].start
                           /\ \A j \in (tokens[k].end + 1)..tokens[k + 1].start :
                                 \/ is_whitespace(text[j])
                                 \/ /\ text[j] = "@"
                                    /\ j = tokens[k + 1].start
                                    /\ IsDateToken(tokens[k + 1])
                     /\ tokens[n].kind = "Eof"
                     /\ tokens[n].start = Len(text)
                     /\ tokens[n].end = Len(text)
                     /\ \A k \in 1..(n - 1) : tokens[k].kind # "Eof")

\* parse has tokenized zz(@2021, @2021-01-01T10 ): a date and a date-time,
\* each after its @, with whitespace before the second @ and before the
\* closing parenthesis
C30_Witness ==
    /\ parsed # NoResult
    /\ With(tokenize(text),
            LAMBDA T :
                /\ T.ok
                /\ Len(T.tokens) = 7
                /\ T.tokens[3] = Token("ISODate", 4, 8)
                /\ T.tokens[4] = Token("Comma", 8, 9)
                /\ T.tokens[5] = Token("ISODateTime", 11, 24)
                /\ T.tokens[6] = Token("RightParen", 25, 26)
                /\ T.tokens[7] = Token("Eof", 26, 26))

(***************************************************************************)
(* Claims about the expression arena, checked under SpecPool.              *)
(***************************************************************************)
\* the step just taken is a call of ExprPool::add
AddStep == lastop'.n = lastop.n + 1 /\ lastop'.call = "add"

\* the step just taken is a call of ExprPool::set_function_object
PatchStep == lastop'.n = lastop.n + 1 /\ lastop'.call = "set_function_object"

C18_PatchFrame ==
    [][PatchStep =>
          LET h == lastop'.expr_ref
              o == lastop'.object
              node == get(ArenaPool, h)
          IN  /\ lastop'.ref = h
              /\ Len(ArenaPool') = Len(ArenaPool)
              /\ [ArenaPool' EXCEPT ![h + 1] = node] = ArenaPool
              /\ IF node.kind = "FunctionCall"
                 THEN /\ get(ArenaPool', h).kind = "FunctionCall"
                      /\ get(ArenaPool', h).object = Some(o)
                      /\ get(ArenaPool', h).function = node.function
                      /\ get(ArenaPool', h).arguments = node.arguments
                 ELSE ArenaPool' = ArenaPool]_vars

\* a FunctionCall with an argument has been given another node as its object
C18_Witness ==
    /\ lastop.call = "set_function_object"
    /\ lastop.expr_ref # lastop.object
    /\ get(ArenaPool, lastop.expr_ref).kind = "FunctionCall"
    /\ get(ArenaPool, lastop.expr_ref).object = Some(lastop.object)
    /\ get(ArenaPool, lastop.expr_ref).arguments # <<>>

=============================================================================
